---- MODULE Spec2Model ----
(***************************************************************************)
(* Verification model of the code-identifier matching and transcription    *)
(* formatting engine:                                                      *)
(*   src/src/services/transcription_formatter_service.py                   *)
(*   src/src/services/code_identifier_service.py                           *)
(*                                                                         *)
(* A Python str is modelled as a sequence of one-character strings.        *)
(* Offsets are 0-based and spans are half-open [start, end), as in the     *)
(* code; Slice(s, i, j) is Python's s[i:j].                                *)
(***************************************************************************)
EXTENDS Integers, Sequences, FiniteSets, TLC

----------------------------------------------------------------------------
(* Characters and Python str primitives                                    *)

LowerSeq ==
  <<"a","b","c","d","e","f","g","h","i","j","k","l","m",
    "n","o","p","q","r","s","t","u","v","w","x","y","z">>

UpperSeq ==
  <<"A","B","C","D","E","F","G","H","I","J","K","L","M",
    "N","O","P","Q","R","S","T","U","V","W","X","Y","Z">>

Lowers == {LowerSeq[i] : i \in 1..Len(LowerSeq)}

Uppers == {UpperSeq[i] : i \in 1..Len(UpperSeq)}

Digits == {"0","1","2","3","4","5","6","7","8","9"}

\* the backtick character (the grave accent cannot be written in a string
\* literal of this language, so the character is named)
Backtick == "<backtick>"

\* str.isspace() on the characters the model uses
Whitespace == {" ", "\t", "\n"}

\* the regex class \w (ASCII part): letters, digits and underscore
IsWordChar(c) == c \in Lowers \cup Uppers \cup Digits \cup {"_"}

LowerOf == [c \in Uppers |-> LowerSeq[CHOOSE i \in 1..Len(UpperSeq) : UpperSeq[i] = c]]

\* str.lower() on one character
LowerChar(c) == IF c \in Uppers THEN LowerOf[c] ELSE c

\* str.lower()
Lower(s) == [i \in 1..Len(s) |-> LowerChar(s[i])]

\* Python s[i:j] for 0 <= i, j (clamped to the string as Python does)
Slice(s, i, j) ==
  LET hi == IF j > Len(s) THEN Len(s) ELSE j
  IN  IF i >= hi THEN << >> ELSE SubSeq(s, i + 1, hi)

\* str.count(c) for a one-character c
CountChar(s, c) == Cardinality({i \in 1..Len(s) : s[i] = c})

\* sub in s for strings
Contains(s, sub) ==
  \E i \in 0..(Len(s) - Len(sub)) : Slice(s, i, i + Len(sub)) = sub

\* s.startswith(p)
StartsWith(s, p) == Len(p) <= Len(s) /\ Slice(s, 0, Len(p)) = p

\* str.replace(c, r) for a one-character c and a replacement string r
RECURSIVE ReplaceChar(_, _, _)
ReplaceChar(s, c, r) ==
  IF s = << >> THEN << >>
  ELSE (IF Head(s) = c THEN r ELSE <<Head(s)>>) \o ReplaceChar(Tail(s), c, r)

\* n copies of the character c
Fill(c, n) == [i \in 1..n |-> c]

\* the context of the URL / file-path check, in characters on each side
ContextWindow == 20

----------------------------------------------------------------------------
(* TranscriptionFormatterService                                           *)

\* re.sub(r'([a-z])([A-Z])', r'\1 \2', s): the two-character matches cannot
\* overlap (the second character is upper case, the first of a match is
\* lower case), so a space goes between every lower/upper neighbour pair.
RECURSIVE SubLowerUpper(_)
SubLowerUpper(s) ==
  IF Len(s) < 2 THEN s
  ELSE IF s[1] \in Lowers /\ s[2] \in Uppers
       THEN <<s[1], " ">> \o SubLowerUpper(Tail(s))
       ELSE <<s[1]>> \o SubLowerUpper(Tail(s))

\* length of the run of upper-case letters starting at s[1]
RECURSIVE UpperRun(_)
UpperRun(s) ==
  IF s # << >> /\ Head(s) \in Uppers THEN 1 + UpperRun(Tail(s)) ELSE 0

\* re.sub(r'([A-Z]+)([A-Z][a-z])', r'\1 \2', s), scanning left to right:
\* at a position the greedy [A-Z]+ takes the whole upper-case run and backs
\* off until [A-Z][a-z] follows; the leftmost such split from the longest
\* group 1 is the match, and the scan resumes after the matched text.
RECURSIVE SubAcronymWord(_)
SubAcronymWord(s) ==
  IF s = << >> THEN << >>
  ELSE LET run == UpperRun(s)
           \* group 1 lengths g (longest first) with s[g+1] upper, s[g+2] lower
           ok  == {g \in 1..(run - 1) : g + 2 <= Len(s) /\ s[g + 2] \in Lowers}
       IN  IF ok # {}
           THEN LET g == CHOOSE x \in ok : \A y \in ok : y <= x
                IN  SubSeq(s, 1, g) \o <<" ">> \o SubSeq(s, g + 1, g + 2)
                      \o SubAcronymWord(Slice(s, g + 2, Len(s)))
           ELSE <<Head(s)>> \o SubAcronymWord(Tail(s))

\* the forms list before deduplication (lines 227-248)
RawForms(identifier) ==
  LET spaced == SubAcronymWord(SubLowerUpper(identifier))
  IN  <<identifier>>
      \o (IF \E i \in 1..Len(identifier) : identifier[i] = "_"
          THEN <<ReplaceChar(identifier, "_", <<" ">>),
                 ReplaceChar(identifier, "_", << >>)>>
          ELSE << >>)
      \o (IF spaced # identifier
          THEN <<spaced, ReplaceChar(spaced, " ", << >>)>>
          ELSE << >>)
      \o <<Lower(spaced)>>

\* a key that tells forms of different casing apart
FormKeyExact(form) == form

\* the key under which two forms count as duplicates (line 254)
FormKey(form) == Lower(form)

\* order-preserving removal of duplicates (lines 251-257)
RECURSIVE Dedup(_, _)
Dedup(forms, seen) ==
  IF forms = << >> THEN << >>
  ELSE IF FormKey(Head(forms)) \in seen
       THEN Dedup(Tail(forms), seen)
       ELSE <<Head(forms)>> \o Dedup(Tail(forms), seen \cup {FormKey(Head(forms))})

\* _generate_spoken_forms
GenerateSpokenForms(identifier) == Dedup(RawForms(identifier), {})

\* regex \b at offset p of text
WordBoundary(text, p) ==
  LET before == p > 0 /\ IsWordChar(text[p])
      after  == p < Len(text) /\ IsWordChar(text[p + 1])
  IN  before # after

\* the pattern \b + re.escape(spoken) + \b matches at offset p (re.IGNORECASE)
MatchesAt(text, spoken, p) ==
  /\ p + Len(spoken) <= Len(text)
  /\ WordBoundary(text, p)
  /\ Lower(Slice(text, p, p + Len(spoken))) = Lower(spoken)
  /\ WordBoundary(text, p + Len(spoken))

\* re.finditer(pattern, text, re.IGNORECASE) from offset p on: successive
\* non-overlapping matches, leftmost first; an empty pattern matches (emptily)
\* once at every word boundary.
RECURSIVE FindIter(_, _, _)
FindIter(text, spoken, p) ==
  IF p > Len(text) THEN << >>
  ELSE IF MatchesAt(text, spoken, p)
       THEN << <<p, p + Len(spoken)>> >>
            \o FindIter(text, spoken, IF spoken = << >> THEN p + 1 ELSE p + Len(spoken))
       ELSE FindIter(text, spoken, p + 1)

\* the check without the parity tests of lines 146-158
IsAlreadyFormattedNoParity(text, start, end) ==
  LET adjacent(q) == \/ (start > 0 /\ text[start] = q)
                     \/ (end < Len(text) /\ text[end + 1] = q)
      context     == Slice(text, IF start - ContextWindow < 0 THEN 0
                                 ELSE start - ContextWindow,
                           end + ContextWindow)
  IN  \/ adjacent(Backtick)
      \/ adjacent("\"")
      \/ adjacent("'")
      \/ Contains(context, <<":", "/", "/">>)
      \/ CountChar(context, "/") >= 2
      \/ CountChar(context, "\\") >= 2

\* the check without the URL/path test of lines 160-166
IsAlreadyFormattedNoPath(text, start, end) ==
  LET adjacent(q) == \/ (start > 0 /\ text[start] = q)
                     \/ (end < Len(text) /\ text[end + 1] = q)
      inside(q)   == CountChar(Slice(text, 0, start), q) % 2 = 1
  IN  \/ adjacent(Backtick)
      \/ adjacent("\"")
      \/ adjacent("'")
      \/ inside(Backtick)
      \/ inside("\"")
      \/ inside("'")

\* _is_already_formatted(text, start, end)
IsAlreadyFormatted(text, start, end) ==
  LET adjacent(q) == \/ (start > 0 /\ text[start] = q)
                     \/ (end < Len(text) /\ text[end + 1] = q)
      inside(q)   == CountChar(Slice(text, 0, start), q) % 2 = 1
      context     == Slice(text, IF start - ContextWindow < 0 THEN 0
                                 ELSE start - ContextWindow,
                           end + ContextWindow)
  IN  \/ adjacent(Backtick)
      \/ adjacent("\"")
      \/ adjacent("'")
      \/ inside(Backtick)
      \/ inside("\"")
      \/ inside("'")
      \/ Contains(context, <<":", "/", "/">>)
      \/ CountChar(context, "/") >= 2
      \/ CountChar(context, "\\") >= 2

\* a wrong interval test: only a span lying inside an accepted one overlaps
OverlapContainedOnly(start, end, r_start, r_end) ==
  start >= r_start /\ end <= r_end

\* the interval test of _overlaps_with_replacements (line 280)
Overlap(start, end, r_start, r_end) == ~(end <= r_start \/ start >= r_end)

\* _overlaps_with_replacements(start, end, replacements)
OverlapsWithReplacements(start, end, reps) ==
  \E i \in 1..Len(reps) : Overlap(start, end, reps[i][1], reps[i][2])

\* a step that puts x before the elements of its own length
RECURSIVE InsertBeforeEqualLen(_, _)
InsertBeforeEqualLen(sorted, x) ==
  IF sorted = << >> THEN <<x>>
  ELSE IF Len(Head(sorted)) > Len(x)
       THEN <<Head(sorted)>> \o InsertBeforeEqualLen(Tail(sorted), x)
       ELSE <<x>> \o sorted

\* one step of a stable sort by len, longest first: x goes after every
\* element at least as long
RECURSIVE InsertByLen(_, _)
InsertByLen(sorted, x) ==
  IF sorted = << >> THEN <<x>>
  ELSE IF Len(Head(sorted)) >= Len(x)
       THEN <<Head(sorted)>> \o InsertByLen(Tail(sorted), x)
       ELSE <<x>> \o sorted

\* the identifiers left in the caller's order
SortIdentifiersUnsorted(ids) == ids

\* sorted(identifiers, key=len, reverse=True) (line 66; the sort is stable)
RECURSIVE SortIdentifiers(_)
SortIdentifiers(ids) ==
  IF ids = << >> THEN << >>
  ELSE InsertByLen(SortIdentifiers(SubSeq(ids, 1, Len(ids) - 1)), ids[Len(ids)])

\* the occurrences the loops of lines 78-83 visit for one identifier, in
\* order: for each spoken form, each finditer match, as (start, end, identifier)
RECURSIVE FormOccurrences(_, _, _)
FormOccurrences(text, identifier, forms) ==
  IF forms = << >> THEN << >>
  ELSE LET ms == FindIter(text, Head(forms), 0)
       IN  [k \in 1..Len(ms) |-> <<ms[k][1], ms[k][2], identifier>>]
           \o FormOccurrences(text, identifier, Tail(forms))

\* the occurrences the loops of lines 71-83 visit, in order
RECURSIVE Occurrences(_, _)
Occurrences(text, sorted_identifiers) ==
  IF sorted_identifiers = << >> THEN << >>
  ELSE FormOccurrences(text, Head(sorted_identifiers),
                       GenerateSpokenForms(Head(sorted_identifiers)))
       \o Occurrences(text, Tail(sorted_identifiers))

\* one step of a stable sort by start, largest first
RECURSIVE InsertByStart(_, _)
InsertByStart(sorted, r) ==
  IF sorted = << >> THEN <<r>>
  ELSE IF Head(sorted)[1] >= r[1]
       THEN <<Head(sorted)>> \o InsertByStart(Tail(sorted), r)
       ELSE <<r>> \o sorted

\* replacements.sort(key=lambda x: x[0], reverse=True) (line 102; stable)
RECURSIVE SortReplacements(_)
SortReplacements(reps) ==
  IF reps = << >> THEN << >>
  ELSE InsertByStart(SortReplacements(SubSeq(reps, 1, Len(reps) - 1)), reps[Len(reps)])

\* the inline-code token: the identifier between two backticks
Token(identifier) == <<Backtick>> \o identifier \o <<Backtick>>

\* result[:start] + token + result[end:] (line 106)
ReplaceSpan(result, start, end, identifier) ==
  Slice(result, 0, start) \o Token(identifier) \o Slice(result, end, Len(result))

\* the loop of lines 104-106 over the sorted replacements
RECURSIVE ApplyReplacements(_, _)
ApplyReplacements(result, reps) ==
  IF reps = << >> THEN result
  ELSE ApplyReplacements(
         ReplaceSpan(result, Head(reps)[1], Head(reps)[2], Head(reps)[3]),
         Tail(reps))

\* a loop body that accepts only the first occurrence of each identifier
ScanOccurrenceFirstOnly(text, reps, occ) ==
  IF IsAlreadyFormatted(text, occ[1], occ[2]) THEN reps
  ELSE IF OverlapsWithReplacements(occ[1], occ[2], reps) THEN reps
  ELSE IF \E k \in 1..Len(reps) : reps[k][3] = occ[3] THEN reps
  ELSE Append(reps, occ)

\* the body of the loop of lines 83-98 for one occurrence: the replacements
\* list after it
ScanOccurrence(text, reps, occ) ==
  IF IsAlreadyFormatted(text, occ[1], occ[2]) THEN reps
  ELSE IF OverlapsWithReplacements(occ[1], occ[2], reps) THEN reps
  ELSE Append(reps, occ)

----------------------------------------------------------------------------
(* CodeIdentifierService: normalize_identifier and match_identifier        *)

\* the string with its '::' left in place
KeepDoubleColon(s) == s

\* str.replace('::', ''): non-overlapping occurrences, left to right
RECURSIVE RemoveDoubleColon(_)
RemoveDoubleColon(s) ==
  IF Len(s) < 2 THEN s
  ELSE IF s[1] = ":" /\ s[2] = ":"
       THEN RemoveDoubleColon(SubSeq(s, 3, Len(s)))
       ELSE <<s[1]>> \o RemoveDoubleColon(Tail(s))

\* ''.join(s.split())
RECURSIVE RemoveWhitespace(_)
RemoveWhitespace(s) ==
  IF s = << >> THEN << >>
  ELSE (IF Head(s) \in Whitespace THEN << >> ELSE <<Head(s)>>)
       \o RemoveWhitespace(Tail(s))

\* normalize_identifier(word)
NormalizeIdentifier(word) ==
  IF word = << >> THEN << >>
  ELSE RemoveWhitespace(
         RemoveDoubleColon(
           ReplaceChar(
             ReplaceChar(
               ReplaceChar(Lower(word), "_", << >>),
               "-", << >>),
             ".", << >>)))

\* s.split(): the maximal runs of non-whitespace characters
RECURSIVE SplitWords(_, _)
SplitWords(s, current) ==
  IF s = << >> THEN (IF current = << >> THEN << >> ELSE <<current>>)
  ELSE IF Head(s) \in Whitespace
       THEN (IF current = << >> THEN << >> ELSE <<current>>)
            \o SplitWords(Tail(s), << >>)
       ELSE SplitWords(Tail(s), Append(current, Head(s)))

\* the largest k with a[i:i+k] == b[j:j+k] within a[:ahi] and b[:bhi]
RECURSIVE BlockSize(_, _, _, _, _, _)
BlockSize(a, b, i, j, ahi, bhi) ==
  IF i < ahi /\ j < bhi /\ a[i + 1] = b[j + 1]
  THEN 1 + BlockSize(a, b, i + 1, j + 1, ahi, bhi)
  ELSE 0

\* SequenceMatcher.find_longest_match(alo, ahi, blo, bhi) without junk:
\* (i, j, k) with k maximal, then i minimal, then j minimal; (alo, blo, 0)
\* when no element matches
FindLongestMatch(a, b, alo, ahi, blo, bhi) ==
  LET size   == [ij \in (alo..(ahi - 1)) \X (blo..(bhi - 1)) |->
                   BlockSize(a, b, ij[1], ij[2], ahi, bhi)]
      blocks == {ij \in DOMAIN size : size[ij] > 0}
  IN  IF blocks = {} THEN <<alo, blo, 0>>
      ELSE LET m == CHOOSE m \in blocks :
                      \A o \in blocks :
                        \/ size[m] > size[o]
                        \/ (size[m] = size[o] /\ m[1] < o[1])
                        \/ (size[m] = size[o] /\ m[1] = o[1] /\ m[2] <= o[2])
           IN  <<m[1], m[2], size[m]>>

\* the total size of SequenceMatcher.get_matching_blocks(): the longest
\* match, then the same to the left and to the right of it
RECURSIVE MatchingSize(_, _, _, _, _, _)
MatchingSize(a, b, alo, ahi, blo, bhi) ==
  IF alo >= ahi \/ blo >= bhi THEN 0
  ELSE LET m == FindLongestMatch(a, b, alo, ahi, blo, bhi)
       IN  IF m[3] = 0 THEN 0
           ELSE m[3] + MatchingSize(a, b, alo, m[1], blo, m[2])
                     + MatchingSize(a, b, m[1] + m[3], ahi, m[2] + m[3], bhi)

(* Confidence values are rationals <<numerator, denominator>>, denominator  *)
(* positive; the sums below are exact (the rounding of Python floats is not *)
(* modelled).                                                              *)

Zero == <<0, 1>>

One == <<1, 1>>

Less(x, y) == x[1] * y[2] < y[1] * x[2]

Same(x, y) == x[1] * y[2] = y[1] * x[2]

Plus(x, y) == <<x[1] * y[2] + y[1] * x[2], x[2] * y[2]>>

RECURSIVE Gcd(_, _)
Gcd(m, n) == IF n = 0 THEN m ELSE Gcd(n, m % n)

\* the rational in lowest terms
Reduce(x) == LET g == Gcd(x[1], x[2]) IN <<x[1] \div g, x[2] \div g>>

\* SequenceMatcher(None, a, b).ratio(): 2.0 * matches / (len(a) + len(b)),
\* and 1.0 for two empty strings
Ratio(a, b) ==
  IF Len(a) + Len(b) = 0 THEN One
  ELSE <<2 * MatchingSize(a, b, 0, Len(a), 0, Len(b)), Len(a) + Len(b)>>

\* the bonus of lines 308-312
PrefixBonus(spoken_normalized, id_normalized) ==
  IF StartsWith(id_normalized, spoken_normalized) THEN <<2, 10>>
  ELSE IF StartsWith(spoken_normalized, id_normalized) THEN <<1, 10>>
  ELSE Zero

\* the bonus of lines 314-316
LengthBonus(spoken_normalized, id_normalized) ==
  IF Len(spoken_normalized) = Len(id_normalized) THEN <<1, 10>> ELSE Zero

\* the bonus of lines 318-326
WordsBonus(spoken_text, identifier) ==
  LET spoken_words == SplitWords(Lower(spoken_text), << >>)
  IN  IF /\ Len(spoken_words) > 1
         /\ \A w \in 1..Len(spoken_words) :
              Contains(Lower(identifier), spoken_words[w])
      THEN <<15, 100>>
      ELSE Zero

\* the score left as the sum of the ratio and the bonuses
CapNothing(score) == score

\* min(1.0, score) (line 329)
Cap(score) == IF Less(One, score) THEN One ELSE score

\* the ratio plus the bonuses, before the cap (lines 305-326)
UncappedScore(spoken_text, identifier) ==
  LET spoken_normalized == NormalizeIdentifier(spoken_text)
      id_normalized     == NormalizeIdentifier(identifier)
  IN  Plus(Plus(Plus(Ratio(spoken_normalized, id_normalized),
                     PrefixBonus(spoken_normalized, id_normalized)),
                LengthBonus(spoken_normalized, id_normalized)),
           WordsBonus(spoken_text, identifier))

\* the score of one identifier that is no exact match (lines 305-329)
FuzzyScore(spoken_text, identifier) ==
  Reduce(Cap(UncappedScore(spoken_text, identifier)))

\* Optional values: None, or a one-element sequence holding the value
None == << >>

Some(x) == <<x>>

\* the truth value Python gives an Optional[str]: None and '' are false
Truthy(opt) == opt # None /\ opt[1] # << >>

\* a candidate that replaces the best one although its score is only equal
ReplacesBestOnTie(score, best_score) == ~Less(score, best_score)

\* score > best_score (line 331)
ReplacesBest(score, best_score) == Less(best_score, score)

\* an exact match that is only scored 1.0 like a fuzzy candidate, the loop
\* going on
LoopBodyNoShortCircuit(spoken_text, identifier, best_match, best_score) ==
  LET score == IF NormalizeIdentifier(spoken_text) = NormalizeIdentifier(identifier)
               THEN One ELSE FuzzyScore(spoken_text, identifier)
  IN  IF ReplacesBest(score, best_score)
      THEN [returned |-> None, best_match |-> Some(identifier), best_score |-> score]
      ELSE [returned |-> None, best_match |-> best_match, best_score |-> best_score]

\* one iteration of the loop of lines 294-334: what it returns (None when it
\* goes on) and the best candidate after it
LoopBody(spoken_text, identifier, best_match, best_score) ==
  IF NormalizeIdentifier(spoken_text) = NormalizeIdentifier(identifier)
  THEN [returned   |-> Some([identifier |-> identifier, confidence |-> One,
                             match_type |-> "exact"]),
        best_match |-> best_match, best_score |-> best_score]
  ELSE LET score == FuzzyScore(spoken_text, identifier)
       IN  IF ReplacesBest(score, best_score)
           THEN [returned |-> None, best_match |-> Some(identifier), best_score |-> score]
           ELSE [returned |-> None, best_match |-> best_match, best_score |-> best_score]

\* what match_identifier returns after the loop (lines 336-347)
AfterLoop(best_match, best_score, best_type, threshold) ==
  IF Truthy(best_match) /\ ~Less(best_score, threshold)
  THEN Some([identifier |-> best_match[1], confidence |-> best_score,
             match_type |-> best_type])
  ELSE None

----------------------------------------------------------------------------
(* CodeIdentifierService: extract_identifiers                              *)

\* STOPWORDS (lines 44-76)
STOPWORDS ==
  {
    <<"a">>, <<"a","l","l">>, <<"a","n">>, <<"a","n","d">>, <<"a","n","y">>,
    <<"a","r","e">>, <<"a","s">>, <<"a","s","y","n","c">>, <<"a","t">>,
    <<"a","w","a","i","t">>, <<"b","e">>, <<"b","e","e","n">>,
    <<"b","e","i","n","g">>, <<"b","r","e","a","k">>, <<"b","u","t">>,
    <<"b","y">>, <<"c","a","n">>, <<"c","a","s","e">>,
    <<"c","a","t","c","h">>, <<"c","h","i","l","d">>,
    <<"c","l","a","s","s">>, <<"c","o","n","s","t">>,
    <<"c","o","n","t","i","n","u","e">>, <<"c","o","u","l","d">>,
    <<"d","a","y">>, <<"d","e","f","a","u","l","t">>, <<"d","i","d">>,
    <<"d","o">>, <<"d","o","e","s">>, <<"d","o","w","n">>,
    <<"e","a","c","h">>, <<"e","l","s","e">>, <<"e","n","d">>,
    <<"e","n","u","m">>, <<"e","v","e","r","y">>,
    <<"e","x","p","o","r","t">>, <<"e","x","t","e","n","d","s">>,
    <<"f","a","l","s","e">>, <<"f","a","m","i","l","y">>,
    <<"f","i","n","a","l","l","y">>, <<"f","o","r">>, <<"f","r","o","m">>,
    <<"f","u","n","c","t","i","o","n">>, <<"g","e","t">>, <<"g","o">>,
    <<"g","r","o","u","p">>, <<"h","a","d">>, <<"h","a","s">>,
    <<"h","a","v","e">>, <<"h","e">>, <<"h","e","r">>, <<"h","i","s">>,
    <<"i">>, <<"i","f">>, <<"i","m","p","l","e","m","e","n","t","s">>,
    <<"i","m","p","o","r","t">>, <<"i","n">>,
    <<"i","n","t","e","r","f","a","c","e">>, <<"i","n","t","o">>,
    <<"i","s">>, <<"i","t">>, <<"j","u","s","t">>, <<"l","e","a","s","t">>,
    <<"l","e","s","s">>, <<"l","e","t">>, <<"l","i","f","e">>,
    <<"m","a","k","e">>, <<"m","a","n">>, <<"m","a","y">>,
    <<"m","i","g","h","t">>, <<"m","o","r","e">>, <<"m","o","s","t">>,
    <<"m","u","s","t">>, <<"m","y">>, <<"n","e","w">>, <<"n","o">>,
    <<"n","o","t">>, <<"n","u","l","l">>, <<"o","f">>, <<"o","f","f">>,
    <<"o","k">>, <<"o","n">>, <<"o","r">>, <<"o","u","t">>,
    <<"p","r","i","v","a","t","e">>, <<"p","r","o","t","e","c","t","e","d">>,
    <<"p","u","b","l","i","c">>, <<"p","u","t">>,
    <<"r","e","t","u","r","n">>, <<"r","u","n">>,
    <<"s","c","h","o","o","l">>, <<"s","e","t">>, <<"s","h","e">>,
    <<"s","h","o","u","l","d">>, <<"s","o">>, <<"s","o","m","e">>,
    <<"s","t","a","t","e">>, <<"s","t","a","t","i","c">>,
    <<"s","t","u","d","e","n","t">>, <<"s","u","p","e","r">>,
    <<"s","w","i","t","c","h">>, <<"t","h","a","t">>, <<"t","h","e">>,
    <<"t","h","e","i","r">>, <<"t","h","e","m">>, <<"t","h","e","n">>,
    <<"t","h","e","s","e">>, <<"t","h","e","y">>, <<"t","h","i","n","g">>,
    <<"t","h","i","s">>, <<"t","h","o","s","e">>, <<"t","h","r","o","w">>,
    <<"t","h","r","o","w","s">>, <<"t","i","m","e">>, <<"t","o">>,
    <<"t","o","o">>, <<"t","r","u","e">>, <<"t","r","y">>,
    <<"t","y","p","e">>, <<"u","n","d","e","f","i","n","e","d">>,
    <<"u","p">>, <<"v","a","r">>, <<"v","e","r","y">>, <<"v","o","i","d">>,
    <<"w","a","s">>, <<"w","a","y">>, <<"w","e">>, <<"w","e","r","e">>,
    <<"w","h","e","n">>, <<"w","h","i","l","e">>, <<"w","i","l","l">>,
    <<"w","i","t","h">>, <<"w","o","m","a","n">>, <<"w","o","r","l","d">>,
    <<"w","o","u","l","d">>, <<"y","e","a","r">>, <<"y","e","s">>,
    <<"y","o","u">>, <<"y","o","u","r">> }

\* MIN_LENGTH (line 79)
MIN_LENGTH == 2

\* MIN_SINGLE_CHAR_UPPERCASE (line 80)
MIN_SINGLE_CHAR_UPPERCASE == TRUE

Letters == Lowers \cup Uppers

\* [a-z0-9]
LowerDigit == Lowers \cup Digits

\* [A-Z0-9]
UpperDigit == Uppers \cup Digits

\* [a-zA-Z0-9]
Alnum == Letters \cup Digits

\* [a-zA-Z_]
NameStart == Letters \cup {"_"}

\* [a-zA-Z0-9_]
NameChar == Alnum \cup {"_"}

\* text[p] of Python is in class (false at the end of the text)
At(text, p, class) == p < Len(text) /\ text[p + 1] \in class

\* the offset after the longest run of class characters from offset p
RECURSIVE RunEnd(_, _, _)
RunEnd(text, p, class) ==
  IF At(text, p, class) THEN RunEnd(text, p + 1, class) ELSE p

\* the offsets after each repetition of (?:sep[class]+), taken greedily
\* from offset p
RECURSIVE GroupEnds(_, _, _, _)
GroupEnds(text, p, sep, class) ==
  IF At(text, p, {sep}) /\ At(text, p + 1, class)
  THEN LET e == RunEnd(text, p + 1, class)
       IN  <<e>> \o GroupEnds(text, e, sep, class)
  ELSE << >>

\* the end of the match of first[rest]*(?:sep[rest]+)+\b at offset p, or -1:
\* the greedy repetition gives groups back until \b holds
SeparatedMatch(text, p, first, rest, sep) ==
  IF WordBoundary(text, p) /\ At(text, p, first)
  THEN LET ends == GroupEnds(text, RunEnd(text, p + 1, rest), sep, rest)
           good == {n \in 1..Len(ends) : WordBoundary(text, ends[n])}
       IN  IF good = {} THEN -1
           ELSE ends[CHOOSE n \in good : \A m \in good : m <= n]
  ELSE -1

\* _camel_case_pattern (lines 87-89) at offset p: the end of the match, or -1
CamelCaseMatch(text, p) ==
  IF WordBoundary(text, p) /\ At(text, p, Lowers)
  THEN LET q == RunEnd(text, p + 1, LowerDigit)
       IN  IF At(text, q, Uppers) /\ WordBoundary(text, RunEnd(text, q + 1, Alnum))
           THEN RunEnd(text, q + 1, Alnum)
           ELSE -1
  ELSE -1

\* _pascal_case_pattern (lines 93-95) at offset p
PascalCaseMatch(text, p) ==
  IF WordBoundary(text, p) /\ At(text, p, Uppers) /\ At(text, p + 1, LowerDigit)
     /\ WordBoundary(text, RunEnd(text, p + 2, Alnum))
  THEN RunEnd(text, p + 2, Alnum)
  ELSE -1

\* _snake_case_pattern (lines 99-101) at offset p
SnakeCaseMatch(text, p) == SeparatedMatch(text, p, Lowers, LowerDigit, "_")

\* _screaming_snake_pattern (lines 105-107) at offset p
ScreamingSnakeMatch(text, p) == SeparatedMatch(text, p, Uppers, UpperDigit, "_")

\* _kebab_case_pattern (lines 111-113) at offset p
KebabCaseMatch(text, p) == SeparatedMatch(text, p, Lowers, LowerDigit, "-")

\* _single_upper_pattern (line 117) at offset p
SingleUpperMatch(text, p) ==
  IF WordBoundary(text, p) /\ At(text, p, Uppers) /\ WordBoundary(text, p + 1)
  THEN p + 1 ELSE -1

\* _acronym_pattern (line 121) at offset p
AcronymMatch(text, p) ==
  LET e == RunEnd(text, p, Uppers)
  IN  IF WordBoundary(text, p) /\ e - p >= 2 /\ e - p <= 5 /\ WordBoundary(text, e)
      THEN e ELSE -1

\* _function_call_pattern (lines 125-127) at offset p: the end of the
\* match and of group 1, or -1
FunctionCallMatch(text, p) ==
  IF WordBoundary(text, p) /\ At(text, p, NameStart)
  THEN LET e1 == RunEnd(text, p + 1, NameChar)
           w  == RunEnd(text, e1, Whitespace)
       IN  IF At(text, w, {"("}) /\ At(text, w + 1, {")"})
           THEN <<w + 2, e1>> ELSE <<-1, -1>>
  ELSE <<-1, -1>>

\* _namespace_pattern (lines 131-133) at offset p: the end of the match,
\* the end of group 1 and the start of group 2, or -1
NamespaceMatch(text, p) ==
  IF WordBoundary(text, p) /\ At(text, p, NameStart)
  THEN LET e1 == RunEnd(text, p + 1, NameChar)
           two == At(text, e1, {".", ":"}) /\ At(text, e1 + 1, {".", ":"})
                    /\ At(text, e1 + 2, NameStart)
           one == At(text, e1, {".", ":"}) /\ At(text, e1 + 1, NameStart)
       IN  IF two THEN <<RunEnd(text, e1 + 2, NameChar), e1, e1 + 2>>
           ELSE IF one THEN <<RunEnd(text, e1 + 1, NameChar), e1, e1 + 1>>
           ELSE <<-1, -1, -1>>
  ELSE <<-1, -1, -1>>

\* the end of the match of the named word pattern at offset p, or -1
PatternMatch(kind, text, p) ==
  CASE kind = "camel"     -> CamelCaseMatch(text, p)
    [] kind = "pascal"    -> PascalCaseMatch(text, p)
    [] kind = "snake"     -> SnakeCaseMatch(text, p)
    [] kind = "screaming" -> ScreamingSnakeMatch(text, p)
    [] kind = "kebab"     -> KebabCaseMatch(text, p)
    [] kind = "acronym"   -> AcronymMatch(text, p)
    [] kind = "single"    -> SingleUpperMatch(text, p)
    [] kind = "call"      -> FunctionCallMatch(text, p)[1]
    [] kind = "namespace" -> NamespaceMatch(text, p)[1]

\* pattern.finditer(text) from offset p on: the start offsets of the
\* successive non-overlapping matches
RECURSIVE PatternFindIter(_, _, _)
PatternFindIter(kind, text, p) ==
  IF p >= Len(text) THEN << >>
  ELSE IF PatternMatch(kind, text, p) >= 0
       THEN <<p>> \o PatternFindIter(kind, text, PatternMatch(kind, text, p))
       ELSE PatternFindIter(kind, text, p + 1)

\* c.isalpha()
IsAlpha(c) == c \in Letters

\* _is_valid_candidate(identifier)
IsValidCandidate(identifier) ==
  /\ identifier # << >>
  /\ Len(identifier) >= MIN_LENGTH
  /\ Lower(identifier) \notin STOPWORDS
  /\ ~(\A i \in 1..Len(identifier) : identifier[i] \in {"_", "-"})
  /\ \E i \in 1..Len(identifier) : IsAlpha(identifier[i])

\* the identifiers of one match, a namespace access joined by ':'
EmittedColonJoined(kind, text, p) ==
  CASE kind = "call" ->
         LET name == Slice(text, p, FunctionCallMatch(text, p)[2])
         IN  IF IsValidCandidate(name) THEN {name} ELSE {}
    [] kind = "namespace" ->
         LET m         == NamespaceMatch(text, p)
             namespace == Slice(text, p, m[2])
             member    == Slice(text, m[3], m[1])
         IN  (IF IsValidCandidate(namespace) THEN {namespace} ELSE {})
             \cup (IF IsValidCandidate(member) THEN {member} ELSE {})
             \cup {namespace \o <<":">> \o member}
    [] kind = "single" ->
         {Slice(text, p, p + 1)}
    [] OTHER ->
         LET identifier == Slice(text, p, PatternMatch(kind, text, p))
         IN  IF IsValidCandidate(identifier) THEN {identifier} ELSE {}

\* the identifiers one match of the named pattern adds to the set
\* (lines 153-222)
Emitted(kind, text, p) ==
  CASE kind = "call" ->
         LET name == Slice(text, p, FunctionCallMatch(text, p)[2])
         IN  IF IsValidCandidate(name) THEN {name} ELSE {}
    [] kind = "namespace" ->
         LET m         == NamespaceMatch(text, p)
             namespace == Slice(text, p, m[2])
             member    == Slice(text, m[3], m[1])
         IN  (IF IsValidCandidate(namespace) THEN {namespace} ELSE {})
             \cup (IF IsValidCandidate(member) THEN {member} ELSE {})
             \cup {namespace \o <<".">> \o member}
    [] kind = "single" ->
         {Slice(text, p, p + 1)}
    [] OTHER ->
         LET identifier == Slice(text, p, PatternMatch(kind, text, p))
         IN  IF IsValidCandidate(identifier) THEN {identifier} ELSE {}

\* the patterns extract_identifiers runs
PatternKinds ==
  {"call", "namespace", "camel", "pascal", "snake", "screaming", "kebab", "acronym"}
    \cup (IF MIN_SINGLE_CHAR_UPPERCASE THEN {"single"} ELSE {})

\* the set identifiers at line 224
ExtractedSet(text) ==
  UNION {UNION {Emitted(kind, text, PatternFindIter(kind, text, 0)[k]) :
                  k \in 1..Len(PatternFindIter(kind, text, 0))}
         : kind \in PatternKinds}

\* str.isupper(): some cased character, and no lower-case one
IsUpperStr(s) ==
  /\ \E i \in 1..Len(s) : s[i] \in Uppers
  /\ \A i \in 1..Len(s) : s[i] \notin Lowers

\* twice _identifier_score(identifier) (lines 434-464), an integer
IdentifierScore2(identifier) ==
  (IF Len(identifier) < 20 THEN Len(identifier) ELSE 20)
  + (IF (\E i \in 1..Len(identifier) : identifier[i] \in Uppers)
        /\ (\E i \in 1..Len(identifier) : identifier[i] \in Lowers)
     THEN 10 ELSE 0)
  + (IF IsUpperStr(identifier) /\ Contains(identifier, <<"_">>) THEN 14 ELSE 0)
  + (IF Contains(identifier, <<"_">>) \/ Contains(identifier, <<"-">>) THEN 6 ELSE 0)
  + (IF Contains(identifier, <<".">>) \/ Contains(identifier, <<":", ":">>)
     THEN 16 ELSE 0)
  + (IF CamelCaseMatch(identifier, 0) >= 0 \/ SnakeCaseMatch(identifier, 0) >= 0
     THEN 4 ELSE 0)

\* the identifiers of a set in an order that ignores the score
RECURSIVE SortedByNothing(_)
SortedByNothing(S) ==
  IF S = {} THEN {<< >>}
  ELSE UNION {{<<x>> \o r : r \in SortedByNothing(S \ {x})} : x \in S}

\* the lists sorted(identifiers, key=score, reverse=True) can return for a
\* set: by score, highest first; the sort is stable, so identifiers of equal
\* score come in the iteration order of the set, which is any order
RECURSIVE SortedByScore(_)
SortedByScore(S) ==
  IF S = {} THEN {<< >>}
  ELSE LET top == {x \in S : \A y \in S : IdentifierScore2(x) >= IdentifierScore2(y)}
       IN  UNION {{<<x>> \o r : r \in SortedByScore(S \ {x})} : x \in top}

\* the elements of a set as a list
RECURSIVE ListOf(_)
ListOf(S) ==
  IF S = {} THEN << >>
  ELSE LET x == CHOOSE y \in S : TRUE IN <<x>> \o ListOf(S \ {x})

\* the identifiers of the matches k.. of one pattern, one entry per match
RECURSIVE MatchList(_, _, _)
MatchList(kind, text, k) ==
  IF k > Len(PatternFindIter(kind, text, 0)) THEN << >>
  ELSE ListOf(Emitted(kind, text, PatternFindIter(kind, text, 0)[k]))
         \o MatchList(kind, text, k + 1)

\* the identifiers of all matches of the patterns in kinds
RECURSIVE KindList(_, _)
KindList(kinds, text) ==
  IF kinds = << >> THEN << >>
  ELSE MatchList(Head(kinds), text, 1) \o KindList(Tail(kinds), text)

\* a list with x put behind the entries of at least its score
RECURSIVE InsertByScore(_, _)
InsertByScore(sorted, x) ==
  IF sorted = << >> THEN <<x>>
  ELSE IF IdentifierScore2(Head(sorted)) >= IdentifierScore2(x)
       THEN <<Head(sorted)>> \o InsertByScore(Tail(sorted), x)
       ELSE <<x>> \o sorted

RECURSIVE SortListByScore(_)
SortListByScore(l) ==
  IF l = << >> THEN << >>
  ELSE InsertByScore(SortListByScore(SubSeq(l, 1, Len(l) - 1)), l[Len(l)])

\* extract_identifiers collecting the matches in a list in place of a set
ExtractIdentifiersAsList(text) ==
  IF text = << >> THEN {<< >>}
  ELSE {SortListByScore(KindList(ListOf(PatternKinds), text))}

\* the lists extract_identifiers(text) can return
ExtractIdentifiers(text) ==
  IF text = << >> THEN {<< >>} ELSE SortedByScore(ExtractedSet(text))

----------------------------------------------------------------------------
(* Inputs of the calls                                                     *)

\* longest transcript of the exhaustively enumerated ones
MaxTextLen == 3

\* longest identifier list of the exhaustively enumerated ones
MaxIds == 2

TextAlphabet == {"a", " ", "_", "'"}

\* all strings over alphabet of length at most n
Strings(alphabet, n) == UNION {[1..k -> alphabet] : k \in 0..n}

IdPool == {<<"a">>, <<"_">>, <<"a", "_", "a">>}

IdLists == UNION {[1..k -> IdPool] : k \in 0..MaxIds}

Str_use_clear == <<"u","s","e"," ","C","l","e","a","r"," ","p","a","s","t","e","b","o","a","r","d">>

Id_clearPasteboard == <<"c","l","e","a","r","P","a","s","t","e","b","o","a","r","d">>

Id_clear == <<"c","l","e","a","r">>

Id_reset == <<"r","e","s","e","t">>

\* identifiers of equal length competing for the same text, in both orders,
\* and three of them in a chain
EqualLengthFormatInputs ==
  { << <<"a"," ","b">>, << <<"a","_","b">>, <<"A","_","B">> >> >>,
    << <<"a"," ","b">>, << <<"A","_","B">>, <<"a","_","b">> >> >>,
    << <<"a"," ","b"," ","c">>, << <<"b","_","c">>, <<"a","_","b">> >> >>,
    << <<"a"," ","b"," ","c">>, << <<"a","_","b">>, <<"b","_","c">> >> >>,
    << <<"a"," ","b"," ","c"," ","d">>,
       << <<"a","_","b">>, <<"b","_","c">>, <<"c","_","d">> >> >> }

\* transcripts paired with identifier lists, beyond the enumerated ones
CuratedFormatInputs ==
  { \* "use Clear pasteboard to RESET" with clear, clearPasteboard, reset
    <<Str_use_clear \o <<" ","t","o"," ","R","E","S","E","T">>,
      <<Id_clear, Id_clearPasteboard, Id_reset>> >>,
    \* three identifiers competing for "a b c"
    << <<"a"," ","b"," ","c">>, << <<"c">>, <<"b","C">>, <<"a","_","b">> >> >>,
    \* quoted text: say "reset" then reset 'x' reset
    << <<"\"">> \o Id_reset \o <<"\""," ">> \o Id_reset \o <<" ","'","x","'"," ">> \o Id_reset,
       <<Id_reset, <<"x">> >> >>,
    \* two path separators, 20 characters apart from the occurrences
    << <<"/","x"," ">> \o Fill("z", ContextWindow - 4) \o <<" ","y"," ","/">>,
       << <<"x">>, <<"y">> >> >>,
    \* a form that overlaps its own next occurrence, after "//"
    << <<"/","/">> \o Fill("z", ContextWindow - 3) \o <<" ","a"," ","a"," ","a">>,
       << <<"a","_","a">> >> >> }
    \cup EqualLengthFormatInputs

\* longest spoken phrase of the exhaustively enumerated ones
MaxPhraseLen == 2

\* longest identifier list handed to match
MaxMatchIds == 2

PhraseAlphabet == {"a", "b", " "}

MatchIdPool == {<< >>, <<"a","b","c">>, <<"a","b","d">>, <<"A","_","b">>, <<"c">>}

MatchIdLists == UNION {[1..k -> MatchIdPool] : k \in 0..MaxMatchIds}

\* thresholds 0, 0.6 (the default), 1.0 and 1.5
Thresholds == {<<0, 1>>, <<6, 10>>, <<1, 1>>, <<3, 2>>}

\* phrases of more than one word, beyond the enumerated ones
CuratedPhrases == {<<"a"," ","b">>, <<"a","b"," ","c">>, <<"c"," ","a","b">>}

MatchInputs ==
  (Strings(PhraseAlphabet, MaxPhraseLen) \cup CuratedPhrases)
    \X MatchIdLists \X Thresholds

\* transcripts with a URL and a path, and an occurrence of the identifier
\* within and beyond 20 characters of it
PathFormatInputs ==
  { << <<"x",":","/","/","a"," ">> \o Fill("z", ContextWindow - 4) \o <<" ","a">>,
       << <<"a">> >> >>,
    << <<"\\","a","\\"," ">> \o Fill("z", ContextWindow - 3) \o <<" ","a">>,
       << <<"a">> >> >> }

FormatInputs ==
  {<<t, ids>> : t \in Strings(TextAlphabet, MaxTextLen), ids \in IdLists}
    \cup CuratedFormatInputs \cup PathFormatInputs

\* longest text handed to extract of the exhaustively enumerated ones
MaxExtractLen == 3

ExtractAlphabet == {"a", "B", "_", "-", ".", ":", "(", ")", " "}

\* texts with identifiers of every pattern, beyond the enumerated ones
CuratedExtractTexts ==
  { <<"g","e","t","U","s","e","r"," ","m","y","_","v","a","r"," ","A","P","I">>,
    <<"U","s","e","r","S","v","c"," ","M","A","X","_","N"," ","m","y","-","c","s","s">>,
    <<"s","t","d",":",":","v","e","c"," ","r","u","n","(",")"," ","X">>,
    <<"u","s","e"," ","t","h","e"," ","a","p","i",".","g","e","t">> }

\* two identifiers that the bonus of lines 460-462 ranks
RankedExtractTexts ==
  { <<"a","B"," ","A","b","c">>,
    <<"A","P","I","S"," ","a","_","b">> }

\* an identifier that several patterns match, several times, and one that
\* differs from it in the separator only
RepeatedExtractTexts ==
  { <<"a","_","b","(",")"," ","a","_","b"," ","a","-","b">>,
    <<"a","B"," ","a","B"," ","A","B">> }

ExtractInputs ==
  Strings(ExtractAlphabet, MaxExtractLen) \cup CuratedExtractTexts
    \cup RankedExtractTexts \cup RepeatedExtractTexts

\* longest identifier handed to spoken_forms of the enumerated ones
MaxFormIdLen == 4

FormIdAlphabet == {"a", "A", "B", "_"}

\* identifiers of the usual styles, beyond the enumerated ones
CuratedFormIds ==
  { <<"g","e","t","U","s","e","r","B","y","I","d">>,
    <<"X","M","L","P","a","r","s","e","r">>,
    <<"g","e","t","_","d","a","t","a">>,
    <<"A","P","I","_","K","E","Y">>,
    <<"u","s","e","r"," ","N","a","m","e">> }

FormIdInputs == Strings(FormIdAlphabet, MaxFormIdLen) \cup CuratedFormIds

\* longest word handed to normalize
MaxWordLen == 3

WordAlphabet == {"a", "B", "_", "-", ".", ":", " "}

\* words joined by every separator style, beyond the enumerated ones
CuratedWords ==
  { <<"g","e","t","_","U","s","e","r",":",":","b","y","-","I","D"," ","x",".","y","2">>,
    <<"a",":",":","B">>,
    <<"A"," ","b","\t","c","1">>,
    <<"a",":"," ",":","b">> }

NormalizeInputs == Strings(WordAlphabet, MaxWordLen) \cup CuratedWords

\* the loop of match_identifier from position i on (lines 294-347)
RECURSIVE MatchLoop(_, _, _, _, _, _)
MatchLoop(spoken, ids, i, bm, bs, thr) ==
  IF i > Len(ids) THEN AfterLoop(bm, bs, "fuzzy", thr)
  ELSE LET after == LoopBody(spoken, ids[i], bm, bs)
       IN  IF after.returned # None THEN after.returned
           ELSE MatchLoop(spoken, ids, i + 1, after.best_match, after.best_score, thr)

\* match_identifier(spoken_text, identifiers, threshold) run alone
MatchIdentifier(spoken, ids, thr) ==
  IF spoken = << >> \/ ids = << >> THEN None
  ELSE MatchLoop(spoken, ids, 1, None, Zero, thr)

\* the loops of format_with_code_identifiers over the occurrences in q
\* (lines 71-99)
RECURSIVE ScanAll(_, _, _)
ScanAll(t, q, reps) ==
  IF q = << >> THEN reps ELSE ScanAll(t, Tail(q), ScanOccurrence(t, reps, Head(q)))

\* format_with_code_identifiers(text, identifiers) run alone
FormatWithCodeIdentifiers(t, ids) ==
  IF t = << >> \/ ids = << >> THEN t
  ELSE ApplyReplacements(t,
         SortReplacements(ScanAll(t, Occurrences(t, SortIdentifiers(ids)), << >>)))

\* number of threads calling one service instance
NumThreads == 2

Threads == 1..NumThreads

\* the calls the threads make: args holds the arguments
ConcurrentCalls ==
  { [op |-> "match", args |-> << <<"a"," ","b">>, << <<"a","b","c">>, <<"A","_","b">> >>, <<6, 10>> >>],
    [op |-> "match", args |-> << <<"a">>, << <<"a","b","c">>, <<"a","b","d">> >>, <<6, 10>> >>],
    [op |-> "match", args |-> << <<"a","b">>, << <<"c">>, <<"a","b","d">> >>, <<1, 1>> >>],
    [op |-> "format", args |-> << <<"a"," ","b"," ","c">>, << <<"c">>, <<"b","C">>, <<"a","_","b">> >> >>],
    [op |-> "format", args |-> << <<"a"," ","a">>, << <<"a">> >> >>],
    [op |-> "extract", args |-> << <<"a","B"," ","A","b","c">> >>],
    [op |-> "normalize", args |-> << <<"a",":",":","B">> >>] }

\* the local variables of a call before its first statement
NoLocals ==
  [index |-> 1, best_match |-> None, best_score |-> Zero,
   queue |-> << >>, replacements |-> << >>]

\* the fields of the service instances set by __init__ (lines 82-135) and
\* the class attributes (lines 44-80)
InstanceFields ==
  [patterns |-> PatternKinds, min_length |-> MIN_LENGTH,
   single_upper |-> MIN_SINGLE_CHAR_UPPERCASE]

\* one frame of locals for all calls, as a field of the instance would be
SlotShared(th) == 1

\* where the locals of the call of thread th live: in its own frame
Slot(th) == th

----------------------------------------------------------------------------
(* split_identifier_words and is_valid_identifier                          *)

\* re.split(r'[_-]+', s): the pieces between the runs of separators, the
\* empty ones at the ends included
RECURSIVE ReSplit(_, _, _)
ReSplit(s, current, in_separator) ==
  IF s = << >> THEN <<current>>
  ELSE IF Head(s) \in {"_", "-"}
       THEN IF in_separator THEN ReSplit(Tail(s), << >>, TRUE)
            ELSE <<current>> \o ReSplit(Tail(s), << >>, TRUE)
       ELSE ReSplit(Tail(s), Append(current, Head(s)), FALSE)

\* the loop of lines 526-538 from offset i on, with the locals words and
\* current_word
RECURSIVE SplitLoop(_, _, _, _)
SplitLoop(identifier, i, words, current_word) ==
  IF i >= Len(identifier)
  THEN IF current_word # << >> THEN Append(words, current_word) ELSE words
  ELSE LET char == identifier[i + 1]
       IN  IF i > 0 /\ char \in Uppers
           THEN IF i + 1 < Len(identifier) /\ identifier[i + 2] \in Uppers
                THEN SplitLoop(identifier, i + 1, words, Append(current_word, char))
                ELSE SplitLoop(identifier, i + 1,
                               IF current_word # << >>
                               THEN Append(words, current_word) ELSE words,
                               <<char>>)
           ELSE SplitLoop(identifier, i + 1, words, Append(current_word, char))

\* split_identifier_words(identifier) (lines 498-543)
SplitIdentifierWords(identifier) ==
  IF identifier = << >> THEN << >>
  ELSE IF CountChar(identifier, "_") > 0 \/ CountChar(identifier, "-") > 0
       THEN ReSplit(identifier, << >>, FALSE)
       ELSE SplitLoop(identifier, 0, << >>, << >>)

\* the patterns that is_valid_identifier tries, in its order (lines 242-249)
ValidPatterns == <<"camel", "pascal", "snake", "screaming", "kebab", "acronym">>

\* is_valid_identifier(word) (lines 228-259): pattern.match looks for a match
\* that begins at the start of word, and may end before its end
IsValidIdentifier(word) ==
  IF word = << >> THEN FALSE
  ELSE IF \E k \in 1..Len(ValidPatterns) : PatternMatch(ValidPatterns[k], word, 0) >= 0
       THEN IsValidCandidate(word)
       ELSE MIN_SINGLE_CHAR_UPPERCASE /\ SingleUpperMatch(word, 0) >= 0

MaxSplitLen == 4

SplitAlphabet == {"a", "B", "_"}

\* longer identifiers: those of the docstring and of test_word_splitting,
\* and acronyms in the middle and at the end
CuratedSplitIds ==
  { <<"g","e","t","U","s","e","r","B","y","I","d">>,
    <<"H","T","T","P","R","e","s","p","o","n","s","e">>,
    <<"u","s","e","r","_","n","a","m","e">>,
    <<"m","y","-","c","o","m","p","o","n","e","n","t">>,
    <<"M","A","X","_","R","E","T","R","I","E","S">>,
    <<"g","e","t","H","T","T","P">>,
    <<"p","a","r","s","e","X","M","L","D","o","c">>,
    <<"a","_","-","b">> }

SplitInputs == Strings(SplitAlphabet, MaxSplitLen) \cup CuratedSplitIds

MaxValidLen == 3

ValidAlphabet == {"a", "B", "_", "-", " "}

\* longer words: those of test_validation, stopwords in upper case, and
\* identifiers followed by other text
CuratedValidWords ==
  { <<"m","y","V","a","r","i","a","b","l","e">>,
    <<"U","s","e","r","A","c","c","o","u","n","t">>,
    <<"g","e","t","_","u","s","e","r">>,
    <<"M","A","X","_","V","A","L","U","E">>,
    <<"m","y","-","c","o","m","p","o","n","e","n","t">>,
    <<"X">>, <<"H","T","T","P">>,
    <<"t","h","e">>, <<"a","n","d">>, <<"i","f">>, <<"i","s">>,
    <<"T","H","E">>, <<"I","F">>,
    <<"m","y","V","a","r"," ","i","s"," ","h","e","r","e">>,
    <<"H","T","T","P","/","1">> }

ValidInputs == Strings(ValidAlphabet, MaxValidLen) \cup CuratedValidWords

----------------------------------------------------------------------------
(* The application: VoiceTypeApp of app.py                                 *)

MaxWorkers == 1

MaxPending == 2

\* the background threads that _stop_recording can have started
Workers == 1..MaxWorkers

\* what the Whisper call returns (non-empty) and what the cleanup model
\* makes of it
AppTranscripts == { <<"a", " ", "b">>, <<"x">> }

\* code_context["code_identifiers"] as the screen service reports it
AppScreens == { << >>, << <<"a", "B">> >>, << <<"a", "B">>, <<"X">> >> }

\* "\n".join(raw_identifiers)
RECURSIVE JoinLines(_)
JoinLines(lines) ==
  IF lines = << >> THEN << >>
  ELSE IF Len(lines) = 1 THEN lines[1]
  ELSE lines[1] \o <<"\n">> \o JoinLines(Tail(lines))

\* the calls of the variable recognition block, in the order it makes them
StageOrder(stage) ==
  CASE stage = "settings" -> 1
    [] stage = "dev_app" -> 2
    [] stage = "window_info" -> 3
    [] stage = "service" -> 4
    [] stage = "context" -> 5
    [] stage = "extract" -> 6
    [] stage = "format" -> 7
    [] OTHER -> 8

\* how the collaborators of the block behave in one run: a call raises, a
\* condition on the settings, the active window or the service is false,
\* or nothing stops the block
RecognitionRuns ==
  {[stage |-> "none", how |-> "none"]}
  \cup {[stage |-> s, how |-> "raise"] :
          s \in {"settings", "dev_app", "window_info", "context", "extract", "format"}}
  \cup {[stage |-> s, how |-> "skip"] : s \in {"settings", "dev_app", "service"}}

\* the block with the except clause removed: an exception of a collaborator
\* leaves the block
VariableRecognitionUncontained(final_text, screen, ids, run) ==
  LET pastContext == StageOrder(run.stage) > StageOrder("context")
      doExtract == pastContext /\ screen # << >>
      raisedExtract == doExtract /\ run.stage = "extract"
      doFormat == doExtract /\ ~raisedExtract /\ ids # << >>
      raisedFormat == doFormat /\ run.stage = "format"
      raisedEarly == run.how = "raise" /\ ~pastContext
      raised == raisedEarly \/ raisedExtract \/ raisedFormat
  IN  [final_text |-> IF doFormat /\ ~raisedFormat
                      THEN FormatWithCodeIdentifiers(final_text, ids)
                      ELSE final_text,
       raised |-> raised,
       propagated |-> raised]

\* the variable recognition block of _process_audio (lines 451-491):
\* final_text is reassigned only after format returned, and the except
\* clause keeps every exception of the block inside it
VariableRecognition(final_text, screen, ids, run) ==
  LET pastContext == StageOrder(run.stage) > StageOrder("context")
      doExtract == pastContext /\ screen # << >>
      raisedExtract == doExtract /\ run.stage = "extract"
      doFormat == doExtract /\ ~raisedExtract /\ ids # << >>
      raisedFormat == doFormat /\ run.stage = "format"
      raisedEarly == run.how = "raise" /\ ~pastContext
  IN  [final_text |-> IF doFormat /\ ~raisedFormat
                      THEN FormatWithCodeIdentifiers(final_text, ids)
                      ELSE final_text,
       raised |-> raisedEarly \/ raisedExtract \/ raisedFormat,
       propagated |-> FALSE]

\* a thread slot in which no _process_audio has run
NoWorker ==
  [pc |-> "none", raw_text |-> << >>, final_text |-> << >>, cleaned |-> << >>,
   screen |-> << >>, identifiers |-> << >>, raised |-> FALSE, failed |-> "none",
   injected |-> None, e_bound |-> FALSE]

\* where a worker is between the start of _process_audio and the call of
\* root.after that ends it
ProcessingSteps ==
  {"transcribe", "cleanup", "recognize", "inject", "success", "except"}

\* a callback that root.after(0, ...) scheduled
Callback(fn, w) == [fn |-> fn, w |-> w]

----------------------------------------------------------------------------
(* The event bus: EventBus of core/event_bus.py                            *)

MaxSubscribes == 3

EventTypes == {"E1", "E2"}

Callbacks == {"c1", "c2", "c3"}

Priorities == {0, 1}

\* the subscribe calls that the callers make: (type, callback, priority, weak)
SubscribeCalls ==
  { <<"E1", "c1", 0, FALSE>>, <<"E1", "c2", 0, FALSE>>, <<"E1", "c3", 1, FALSE>>,
    <<"E1", "c2", 0, TRUE>>, <<"E2", "c1", 1, FALSE>> }

\* the unsubscribe calls that the callers make: (type, callback)
UnsubscribeCalls == { <<"E1", "c1">>, <<"E1", "c2">>, <<"E2", "c1">> }

\* Subscription(callback, priority, weak) of lines 120-125; n is the number
\* of the subscribe call that made it, which the program does not keep
Subscription(callback, priority, weak, n) ==
  [callback |-> callback, priority |-> priority, weak |-> weak, n |-> n]

\* inserting sub after the last element whose priority is at least its own
RECURSIVE InsertByPriority(_, _)
InsertByPriority(subs, sub) ==
  IF subs = << >> THEN <<sub>>
  ELSE IF Head(subs).priority >= sub.priority
       THEN <<Head(subs)>> \o InsertByPriority(Tail(subs), sub)
       ELSE <<sub>> \o subs

\* a sort that puts a new element before the elements of equal priority
RECURSIVE InsertBeforeEquals(_, _)
InsertBeforeEquals(subs, sub) ==
  IF subs = << >> THEN <<sub>>
  ELSE IF Head(subs).priority > sub.priority
       THEN <<Head(subs)>> \o InsertBeforeEquals(Tail(subs), sub)
       ELSE <<sub>> \o subs

RECURSIVE SortUnstable(_)
SortUnstable(subs) ==
  IF subs = << >> THEN << >>
  ELSE InsertBeforeEquals(SortUnstable(SubSeq(subs, 1, Len(subs) - 1)), subs[Len(subs)])

\* list.sort(key=lambda s: s.priority, reverse=True) of lines 130-133: the
\* sort of Python is stable, also with reverse=True
RECURSIVE SortByPriority(_)
SortByPriority(subs) ==
  IF subs = << >> THEN << >>
  ELSE InsertByPriority(SortByPriority(SubSeq(subs, 1, Len(subs) - 1)), subs[Len(subs)])

\* [s for s in subs if s.callback != callback] of lines 178-181
RECURSIVE WithoutCallback(_, _)
WithoutCallback(subs, callback) ==
  IF subs = << >> THEN << >>
  ELSE IF Head(subs).callback # callback
       THEN <<Head(subs)>> \o WithoutCallback(Tail(subs), callback)
       ELSE WithoutCallback(Tail(subs), callback)

\* subs.remove(sub) of line 243: the first element equal to sub goes
RECURSIVE RemoveFirst(_, _)
RemoveFirst(subs, sub) ==
  IF subs = << >> THEN << >>
  ELSE IF Head(subs) = sub THEN Tail(subs)
       ELSE <<Head(subs)>> \o RemoveFirst(Tail(subs), sub)

\* the cleanup loop of lines 240-243 for the dead references of one type
RECURSIVE RemoveDead(_, _)
RemoveDead(subs, dead_refs) ==
  IF dead_refs = << >> THEN subs
  ELSE RemoveDead(RemoveFirst(subs, Head(dead_refs)), Tail(dead_refs))

\* Subscription.get_callback (lines 24-28): None for a weak subscription
\* whose callback was collected
GetCallback(sub, dead) ==
  IF sub.weak /\ sub.callback \in dead THEN None ELSE Some(sub.callback)

\* no _dispatch in progress
NoDispatch ==
  [pc |-> "idle", type |-> "E1", subscribers |-> << >>, index |-> 1,
   invoked |-> << >>, dead_refs |-> << >>]

----------------------------------------------------------------------------
(* The state machine: StateMachine of core/state_machine.py                *)

MaxTransitions == 3

MaxDepth == 2

MaxCallbacks == 1

HistoryLimit == 50

State == {"IDLE", "RECORDING", "TRANSCRIBING", "PROCESSING", "INJECTING", "ERROR"}

Transition(from_state, to_state, trigger) ==
  [from_state |-> from_state, to_state |-> to_state, trigger |-> trigger]

\* the class attribute TRANSITIONS (lines 57-97); guard and action are None
\* in every entry
TRANSITIONS ==
  << Transition("IDLE", "RECORDING", "start_recording"),
     Transition("RECORDING", "TRANSCRIBING", "stop_recording"),
     Transition("RECORDING", "IDLE", "cancel"),
     Transition("TRANSCRIBING", "PROCESSING", "transcription_complete"),
     Transition("TRANSCRIBING", "INJECTING", "transcription_complete_direct"),
     Transition("TRANSCRIBING", "ERROR", "error"),
     Transition("PROCESSING", "INJECTING", "processing_complete"),
     Transition("PROCESSING", "ERROR", "error"),
     Transition("INJECTING", "IDLE", "complete"),
     Transition("INJECTING", "ERROR", "error"),
     Transition("ERROR", "IDLE", "acknowledge"),
     Transition("RECORDING", "IDLE", "force_reset"),
     Transition("TRANSCRIBING", "IDLE", "force_reset"),
     Transition("PROCESSING", "IDLE", "force_reset"),
     Transition("INJECTING", "IDLE", "force_reset"),
     Transition("ERROR", "IDLE", "force_reset") >>

\* the triggers that callers pass: those of the table and an unknown one
Triggers == {TRANSITIONS[i].trigger : i \in 1..Len(TRANSITIONS)} \cup {"bogus"}

\* key in self._transition_map, the dictionary that __init__ builds
\* (lines 121-124)
InTransitionMap(state, trigger) ==
  \E i \in 1..Len(TRANSITIONS) :
    TRANSITIONS[i].from_state = state /\ TRANSITIONS[i].trigger = trigger

\* self._transition_map[key]: a later entry of the list replaces an earlier
\* one with the same key
TransitionMap(state, trigger) ==
  LET matching == {i \in 1..Len(TRANSITIONS) :
                     TRANSITIONS[i].from_state = state /\ TRANSITIONS[i].trigger = trigger}
  IN  TRANSITIONS[CHOOSE i \in matching : \A j \in matching : j <= i]

\* what the callbacks that callers register do: nothing, raise, or call
\* transition again
CallbackBodies == {"noop", "raise", "cancel", "acknowledge"}

\* the calls of on_exit and on_enter that the callers make
RegisterCalls ==
  { <<"exit", "RECORDING", "cancel">>, <<"enter", "ERROR", "acknowledge">>,
    <<"exit", "IDLE", "raise">>, <<"enter", "RECORDING", "noop">> }

\* no call of transition has returned
NoReturn == [state |-> "IDLE", trigger |-> "none", returned |-> FALSE]

\* self._history.append(...) with the limit of lines 210-212
AppendHistory(history, entry) ==
  LET h == Append(history, entry)
  IN  IF Len(h) > HistoryLimit THEN Tail(h) ELSE h

----------------------------------------------------------------------------
(* The calls as a state machine: one caller, one call at a time            *)

VARIABLES
  pc,            \* "idle", where the current call is, or "threads"
  text,          \* format: the text argument
  identifiers,   \* format: the identifiers argument
  queue,         \* format: the occurrences the loops have still to visit
  replacements,  \* format: the local list replacements
  result,        \* format: the value returned
  pass,          \* caller: 1 for a first format call, 2 for the call on its output
  first_result,  \* caller: what the first format call returned
  spoken_text,   \* match: the spoken_text argument
  m_identifiers, \* match: the identifiers argument
  threshold,     \* match: the threshold argument
  m_index,       \* match: the position of the loop in identifiers (from 1)
  best_match,    \* match: the local best_match
  best_score,    \* match: the local best_score
  best_type,     \* match: the local best_type
  m_result,      \* match: the value returned
  e_text,        \* extract: the text argument
  e_result,      \* extract: the value returned
  n_word,        \* normalize: the word argument
  n_result,      \* normalize: the value returned
  s_identifier,  \* spoken_forms: the identifier argument
  s_forms,       \* spoken_forms: the value returned
  instance,      \* threads: the fields of the shared service instance
  t_pc,          \* threads: where the call of each thread is
  t_call,        \* threads: the call of each thread
  t_local,       \* threads: the frames of local variables
  t_result,      \* threads: the value each call returned
  app_state,     \* app: the field _state of VoiceTypeApp
  after_queue,   \* app: the callbacks root.after(0, ...) has scheduled
  worker,        \* app: the background threads running _process_audio
  outcome,       \* app: what the last callback of a worker did
  subscriptions, \* bus: the field _subscriptions, a list for each event type
  collected,     \* bus: the callbacks that the garbage collector has freed
  dispatch,      \* bus: the call of _dispatch in progress and its locals
  sub_count,     \* bus: how many subscribe calls there have been
  unsubscribed,  \* bus: the callbacks whose unsubscribe, for the type being
                 \* dispatched, returned since the dispatch began
  sm_state,      \* state machine: the field _state
  sm_history,    \* state machine: the field _history
  sm_on_exit,    \* state machine: the field _on_exit_callbacks
  sm_on_enter,   \* state machine: the field _on_enter_callbacks
  sm_stack,      \* state machine: the calls of transition in progress
  sm_published,  \* state machine: the STATE_CHANGED events published
  sm_ran,        \* state machine: how many callbacks have been called
  sm_last,       \* state machine: the last call of transition that returned
  w_identifier,  \* split_identifier_words: the identifier argument
  w_words,       \* split_identifier_words: the value returned
  v_word,        \* is_valid_identifier: the word argument
  v_result       \* is_valid_identifier: the value returned

fvars == <<text, identifiers, queue, replacements, result, pass, first_result>>

mvars == <<spoken_text, m_identifiers, threshold, m_index, best_match,
           best_score, best_type, m_result>>

xvars == <<e_text, e_result, n_word, n_result, s_identifier, s_forms>>

cvars == <<instance, t_pc, t_call, t_local, t_result>>

avars == <<app_state, after_queue, worker, outcome>>

\* the variables of the engine calls
evars == <<fvars, mvars, xvars, cvars>>

\* the variables outside the engine calls
bvars == <<subscriptions, collected, dispatch, sub_count, unsubscribed>>

svars == <<sm_state, sm_history, sm_on_exit, sm_on_enter, sm_stack,
           sm_published, sm_ran, sm_last>>

wvars == <<w_identifier, w_words, v_word, v_result>>

ovars == <<avars, bvars, svars, wvars>>

\* the variables outside the application
notApp == <<bvars, svars, wvars>>

\* the variables outside the event bus
notBus == <<avars, svars, wvars>>

\* the variables outside the state machine
notMachine == <<avars, bvars, wvars>>

vars == <<pc, fvars, mvars, xvars, cvars, ovars>>

Init ==
  /\ pc = "idle"
  /\ text = << >>
  /\ identifiers = << >>
  /\ queue = << >>
  /\ replacements = << >>
  /\ result = << >>
  /\ pass = 0
  /\ first_result = << >>
  /\ spoken_text = << >>
  /\ m_identifiers = << >>
  /\ threshold = Zero
  /\ m_index = 1
  /\ best_match = None
  /\ best_score = Zero
  /\ best_type = "fuzzy"
  /\ m_result = None
  /\ e_text = << >>
  /\ e_result = << >>
  /\ n_word = << >>
  /\ n_result = << >>
  /\ s_identifier = << >>
  /\ s_forms = << >>
  /\ instance = InstanceFields
  /\ t_pc = [th \in Threads |-> "idle"]
  /\ t_call = [th \in Threads |-> [op |-> "none", args |-> << >>]]
  /\ t_local = [th \in Threads |-> NoLocals]
  /\ t_result = [th \in Threads |-> << >>]
  /\ app_state = "IDLE"
  /\ after_queue = << >>
  /\ worker = [w \in Workers |-> NoWorker]
  /\ outcome = "none"
  /\ subscriptions = [et \in EventTypes |-> << >>]
  /\ collected = {}
  /\ dispatch = NoDispatch
  /\ sub_count = 0
  /\ unsubscribed = {}
  /\ sm_state = "IDLE"
  /\ sm_history = << >>
  /\ sm_on_exit = [s \in State |-> << >>]
  /\ sm_on_enter = [s \in State |-> << >>]
  /\ sm_stack = << >>
  /\ sm_published = << >>
  /\ sm_ran = 0
  /\ sm_last = NoReturn
  /\ w_identifier = << >>
  /\ w_words = << >>
  /\ v_word = << >>
  /\ v_result = FALSE

\* format_with_code_identifiers(t, ids) up to the first loop iteration
\* (lines 60-69)
EnterFormat(t, ids) ==
  /\ text' = t
  /\ identifiers' = ids
  /\ replacements' = << >>
  /\ IF t = << >> \/ ids = << >>
     THEN /\ result' = t
          /\ queue' = << >>
          /\ pc' = "format_done"
     ELSE /\ result' = << >>
          /\ queue' = Occurrences(t, SortIdentifiers(ids))
          /\ pc' = "format_scan"

\* the caller calls format on a transcript and an identifier list
FormatCall ==
  /\ pc = "idle"
  /\ \E inp \in FormatInputs : EnterFormat(inp[1], inp[2])
  /\ pass' = 1
  /\ first_result' = << >>
  /\ UNCHANGED <<ovars, mvars, xvars, cvars>>

\* one iteration of the innermost loop (lines 83-99)
FormatScan ==
  /\ pc = "format_scan"
  /\ queue # << >>
  /\ replacements' = ScanOccurrence(text, replacements, Head(queue))
  /\ queue' = Tail(queue)
  /\ UNCHANGED <<ovars, pc, text, identifiers, result, pass, first_result, mvars, xvars, cvars>>

\* after the loops: sort, apply, return (lines 101-114)
FormatApply ==
  /\ pc = "format_scan"
  /\ queue = << >>
  /\ replacements' = SortReplacements(replacements)
  /\ result' = ApplyReplacements(text, SortReplacements(replacements))
  /\ pc' = "format_done"
  /\ UNCHANGED <<ovars, text, identifiers, queue, pass, first_result, mvars, xvars, cvars>>

\* the caller formats the output of the first call again, same identifiers
FormatAgain ==
  /\ pc = "format_done"
  /\ pass = 1
  /\ EnterFormat(result, identifiers)
  /\ pass' = 2
  /\ first_result' = result
  /\ UNCHANGED <<ovars, mvars, xvars, cvars>>

NextFormat == FormatCall \/ FormatScan \/ FormatApply \/ FormatAgain

\* match_identifier entered without the test of lines 283-284
MatchCallNoEarlyReturn ==
  /\ pc = "idle"
  /\ \E inp \in MatchInputs :
       /\ spoken_text' = inp[1]
       /\ m_identifiers' = inp[2]
       /\ threshold' = inp[3]
  /\ pc' = "match_loop"
  /\ m_result' = None
  /\ m_index' = 1
  /\ best_match' = None
  /\ best_score' = Zero
  /\ best_type' = "fuzzy"
  /\ UNCHANGED <<ovars, fvars, xvars, cvars>>

\* match_identifier(spoken_text, identifiers, threshold) up to the loop
\* (lines 283-289)
MatchCall ==
  /\ pc = "idle"
  /\ \E inp \in MatchInputs :
       /\ spoken_text' = inp[1]
       /\ m_identifiers' = inp[2]
       /\ threshold' = inp[3]
       /\ pc' = IF inp[1] = << >> \/ inp[2] = << >> THEN "match_done" ELSE "match_loop"
  /\ m_result' = None
  /\ m_index' = 1
  /\ best_match' = None
  /\ best_score' = Zero
  /\ best_type' = "fuzzy"
  /\ UNCHANGED <<ovars, fvars, xvars, cvars>>

\* an iteration that returns an exact match only if 1.0 reaches the
\* threshold, and goes on otherwise
MatchStepThresholdGated ==
  /\ pc = "match_loop"
  /\ m_index <= Len(m_identifiers)
  /\ LET after == LoopBody(spoken_text, m_identifiers[m_index], best_match, best_score)
     IN  /\ best_match' = after.best_match
         /\ best_score' = after.best_score
         /\ IF after.returned # None /\ ~Less(One, threshold)
            THEN m_result' = after.returned /\ pc' = "match_done" /\ m_index' = m_index
            ELSE m_result' = m_result /\ pc' = pc /\ m_index' = m_index + 1
  /\ UNCHANGED <<ovars, spoken_text, m_identifiers, threshold, best_type, fvars, xvars, cvars>>

\* one iteration of the loop (lines 294-334)
MatchStep ==
  /\ pc = "match_loop"
  /\ m_index <= Len(m_identifiers)
  /\ LET after == LoopBody(spoken_text, m_identifiers[m_index], best_match, best_score)
     IN  /\ best_match' = after.best_match
         /\ best_score' = after.best_score
         /\ IF after.returned # None
            THEN m_result' = after.returned /\ pc' = "match_done" /\ m_index' = m_index
            ELSE m_result' = m_result /\ pc' = pc /\ m_index' = m_index + 1
  /\ UNCHANGED <<ovars, spoken_text, m_identifiers, threshold, best_type, fvars, xvars, cvars>>

\* after the loop (lines 336-347)
MatchReturn ==
  /\ pc = "match_loop"
  /\ m_index > Len(m_identifiers)
  /\ m_result' = AfterLoop(best_match, best_score, best_type, threshold)
  /\ pc' = "match_done"
  /\ UNCHANGED <<ovars, spoken_text, m_identifiers, threshold, m_index, best_match,
                 best_score, best_type, fvars, xvars, cvars>>

NextMatch == MatchCall \/ MatchStep \/ MatchReturn

\* extract_identifiers(text), a call without intermediate states
\* (lines 137-226)
ExtractCall ==
  /\ pc = "idle"
  /\ \E t \in ExtractInputs :
       /\ e_text' = t
       /\ e_result' \in ExtractIdentifiers(t)
  /\ pc' = "extract_done"
  /\ UNCHANGED <<ovars, cvars, fvars, mvars, n_word, n_result, s_identifier, s_forms>>

\* normalize_identifier(word), a call without intermediate states
\* (lines 349-380)
NormalizeCall ==
  /\ pc = "idle"
  /\ \E w \in NormalizeInputs :
       /\ n_word' = w
       /\ n_result' = NormalizeIdentifier(w)
  /\ pc' = "normalize_done"
  /\ UNCHANGED <<ovars, cvars, fvars, mvars, e_text, e_result, s_identifier, s_forms>>

\* _generate_spoken_forms(identifier), a call without intermediate states
\* (lines 208-259)
SpokenFormsCall ==
  /\ pc = "idle"
  /\ \E id \in FormIdInputs :
       /\ s_identifier' = id
       /\ s_forms' = GenerateSpokenForms(id)
  /\ pc' = "forms_done"
  /\ UNCHANGED <<ovars, cvars, fvars, mvars, e_text, e_result, n_word, n_result>>

\* a thread enters a call: the early returns, the initial locals, and the
\* whole of extract and normalize, which keep no data between statements
\* that another call could reach
ThreadCall(th) ==
  /\ pc \in {"idle", "threads"}
  /\ pc' = "threads"
  /\ t_pc[th] = "idle"
  /\ \E call \in ConcurrentCalls :
       /\ t_call' = [t_call EXCEPT ![th] = call]
       /\ CASE call.op = "match" ->
                 /\ t_local' = [t_local EXCEPT ![Slot(th)] = NoLocals]
                 /\ t_result' = [t_result EXCEPT ![th] = None]
                 /\ t_pc' = [t_pc EXCEPT ![th] =
                              IF call.args[1] = << >> \/ call.args[2] = << >>
                              THEN "done" ELSE "match_loop"]
            [] call.op = "format" ->
                 LET early == call.args[1] = << >> \/ call.args[2] = << >>
                 IN  /\ t_local' = [t_local EXCEPT ![Slot(th)] =
                                      [NoLocals EXCEPT !.queue =
                                         IF early THEN << >>
                                         ELSE Occurrences(call.args[1],
                                                          SortIdentifiers(call.args[2]))]]
                     /\ t_result' = [t_result EXCEPT ![th] =
                                       IF early THEN call.args[1] ELSE << >>]
                     /\ t_pc' = [t_pc EXCEPT ![th] =
                                  IF early THEN "done" ELSE "format_scan"]
            [] call.op = "extract" ->
                 /\ t_result' \in {[t_result EXCEPT ![th] = r] :
                                     r \in ExtractIdentifiers(call.args[1])}
                 /\ t_pc' = [t_pc EXCEPT ![th] = "done"]
                 /\ UNCHANGED t_local
            [] call.op = "normalize" ->
                 /\ t_result' = [t_result EXCEPT ![th] = NormalizeIdentifier(call.args[1])]
                 /\ t_pc' = [t_pc EXCEPT ![th] = "done"]
                 /\ UNCHANGED t_local
  /\ UNCHANGED <<ovars, instance, fvars, mvars, xvars>>

\* one iteration of the loop of match (lines 294-334) in thread th
ThreadMatchStep(th) ==
  /\ t_pc[th] = "match_loop"
  /\ t_local[Slot(th)].index <= Len(t_call[th].args[2])
  /\ LET loc   == t_local[Slot(th)]
         after == LoopBody(t_call[th].args[1], t_call[th].args[2][loc.index],
                           loc.best_match, loc.best_score)
     IN  IF after.returned # None
         THEN /\ t_result' = [t_result EXCEPT ![th] = after.returned]
              /\ t_pc' = [t_pc EXCEPT ![th] = "done"]
              /\ UNCHANGED t_local
         ELSE /\ t_local' = [t_local EXCEPT ![Slot(th)] =
                               [loc EXCEPT !.index = loc.index + 1,
                                           !.best_match = after.best_match,
                                           !.best_score = after.best_score]]
              /\ UNCHANGED <<t_result, t_pc>>
  /\ UNCHANGED <<ovars, instance, t_call, pc, fvars, mvars, xvars>>

\* after the loop of match (lines 336-347) in thread th
ThreadMatchReturn(th) ==
  /\ t_pc[th] = "match_loop"
  /\ t_local[Slot(th)].index > Len(t_call[th].args[2])
  /\ t_result' = [t_result EXCEPT ![th] =
                    AfterLoop(t_local[Slot(th)].best_match,
                              t_local[Slot(th)].best_score, "fuzzy",
                              t_call[th].args[3])]
  /\ t_pc' = [t_pc EXCEPT ![th] = "done"]
  /\ UNCHANGED <<ovars, instance, t_call, t_local, pc, fvars, mvars, xvars>>

\* one iteration of the innermost loop of format (lines 83-99) in thread th
ThreadFormatScan(th) ==
  /\ t_pc[th] = "format_scan"
  /\ t_local[Slot(th)].queue # << >>
  /\ LET loc == t_local[Slot(th)]
     IN  t_local' = [t_local EXCEPT ![Slot(th)] =
                       [loc EXCEPT !.queue = Tail(loc.queue),
                                   !.replacements =
                                      ScanOccurrence(t_call[th].args[1],
                                                     loc.replacements, Head(loc.queue))]]
  /\ UNCHANGED <<ovars, instance, t_call, t_pc, t_result, pc, fvars, mvars, xvars>>

\* after the loops of format (lines 101-114) in thread th
ThreadFormatApply(th) ==
  /\ t_pc[th] = "format_scan"
  /\ t_local[Slot(th)].queue = << >>
  /\ t_result' = [t_result EXCEPT ![th] =
                    ApplyReplacements(t_call[th].args[1],
                                      SortReplacements(t_local[Slot(th)].replacements))]
  /\ t_pc' = [t_pc EXCEPT ![th] = "done"]
  /\ UNCHANGED <<ovars, instance, t_call, t_local, pc, fvars, mvars, xvars>>

NextThreads ==
  \E th \in Threads :
    \/ ThreadCall(th)
    \/ ThreadMatchStep(th)
    \/ ThreadMatchReturn(th)
    \/ ThreadFormatScan(th)
    \/ ThreadFormatApply(th)

----------------------------------------------------------------------------
(* The application as a state machine: the Tk main loop and the workers    *)

\* the application runs; no engine call of the single caller is in progress
InApp == pc \in {"idle", "app"} /\ pc' = "app"

\* _start_recording (lines 308-324): _state is RECORDING unless the audio
\* service or the pill raises, and then IDLE
StartRecording(ok) ==
  /\ app_state' = IF ok THEN "RECORDING" ELSE "IDLE"
  /\ UNCHANGED worker

\* a thread that has ended and whose callback has run
Ended(w) ==
  /\ worker[w].pc \in {"none", "done"}
  /\ \A i \in 1..Len(after_queue) : after_queue[i].w # w

\* _stop_recording (lines 326-350): _state is PROCESSING and a thread runs
\* _process_audio, unless a call raises, and then _state is IDLE; the
\* threads that have ended are gone, and the new thread takes the first free
\* slot
StopRecording(ok) ==
  IF ok
  THEN /\ app_state' = "PROCESSING"
       /\ \E w \in Workers :
            /\ Ended(w)
            /\ \A v \in Workers : Ended(v) => w <= v
            /\ worker' = [v \in Workers |->
                            IF v = w THEN [NoWorker EXCEPT !.pc = "transcribe"]
                            ELSE IF Ended(v) THEN NoWorker ELSE worker[v]]
  ELSE /\ app_state' = "IDLE"
       /\ UNCHANGED worker

\* _start_recording_from_hotkey (lines 267-273)
StartRecordingFromHotkey ==
  IF app_state = "IDLE"
  THEN \E ok \in BOOLEAN : StartRecording(ok)
  ELSE UNCHANGED <<app_state, worker>>

\* _stop_recording_from_hotkey (lines 275-281)
StopRecordingFromHotkey ==
  IF app_state = "RECORDING"
  THEN \E ok \in BOOLEAN : StopRecording(ok)
  ELSE UNCHANGED <<app_state, worker>>

\* _on_hotkey_press (lines 247-255): the start handler goes to the main loop
HotkeyPress ==
  /\ InApp
  /\ Len(after_queue) < MaxPending
  /\ after_queue' = Append(after_queue, Callback("start_recording_from_hotkey", 0))
  /\ UNCHANGED <<app_state, worker, outcome, evars, notApp>>

\* _on_hotkey_release (lines 257-265): the stop handler goes to the main loop
HotkeyRelease ==
  /\ InApp
  /\ Len(after_queue) < MaxPending
  /\ after_queue' = Append(after_queue, Callback("stop_recording_from_hotkey", 0))
  /\ UNCHANGED <<app_state, worker, outcome, evars, notApp>>

\* _toggle_recording (lines 283-306), the click handler of the pill, on the
\* main thread
ToggleRecording ==
  /\ InApp
  /\ CASE app_state = "IDLE" -> \E ok \in BOOLEAN : StartRecording(ok)
       [] app_state = "RECORDING" -> \E ok \in BOOLEAN : StopRecording(ok)
       [] OTHER -> UNCHANGED <<app_state, worker>>
  /\ UNCHANGED <<after_queue, outcome, evars, notApp>>

\* _on_success (lines 594-598)
OnSuccess ==
  /\ app_state' = "IDLE"
  /\ outcome' = "success"
  /\ UNCHANGED worker

\* _on_error (lines 600-604)
OnError ==
  /\ app_state' = "IDLE"
  /\ outcome' = "error"
  /\ UNCHANGED worker

\* the callback of line 501, lambda: self._on_error(str(e)): e is the name
\* bound by the except clause of the worker, which Python unbinds when the
\* clause ends; called after that, the lambda raises NameError and
\* _on_error does not run
OnErrorLambda(w) ==
  IF worker[w].e_bound
  THEN OnError
  ELSE /\ outcome' = "name_error"
       /\ UNCHANGED <<app_state, worker>>

\* the Tk main loop runs the callback scheduled first
MainLoop ==
  /\ InApp
  /\ after_queue # << >>
  /\ after_queue' = Tail(after_queue)
  /\ LET cb == Head(after_queue)
     IN  CASE cb.fn = "start_recording_from_hotkey" ->
                StartRecordingFromHotkey /\ UNCHANGED outcome
           [] cb.fn = "stop_recording_from_hotkey" ->
                StopRecordingFromHotkey /\ UNCHANGED outcome
           [] cb.fn = "on_success" -> OnSuccess
           [] cb.fn = "on_error_lambda" -> OnErrorLambda(cb.w)
  /\ UNCHANGED <<evars, notApp>>

\* _process_audio up to the transcript (lines 354-436): the client, the
\* preprocessing or Whisper raises, the transcript is empty (which raises),
\* or raw_text is a transcript
Transcribe(w) ==
  /\ InApp
  /\ worker[w].pc = "transcribe"
  /\ \/ \E t \in AppTranscripts :
          worker' = [worker EXCEPT ![w].raw_text = t, ![w].pc = "cleanup"]
     \/ worker' = [worker EXCEPT ![w].failed = "transcribe", ![w].pc = "except"]
  /\ UNCHANGED <<app_state, after_queue, outcome, evars, notApp>>

\* the cleanup of lines 438-449: final_text is raw_text, or what the cleanup
\* model returns; _cleanup_text returns its argument when the model fails,
\* and the settings lookup of line 440 can raise
Cleanup(w) ==
  /\ InApp
  /\ worker[w].pc = "cleanup"
  /\ \/ \E t \in AppTranscripts \cup {worker[w].raw_text} :
          worker' = [worker EXCEPT ![w].final_text = t, ![w].cleaned = t,
                                   ![w].pc = "recognize"]
     \/ worker' = [worker EXCEPT ![w].failed = "cleanup", ![w].pc = "except"]
  /\ UNCHANGED <<app_state, after_queue, outcome, evars, notApp>>

\* the variable recognition block (lines 451-491), which shares nothing with
\* the main thread
Recognize(w) ==
  /\ InApp
  /\ worker[w].pc = "recognize"
  /\ \E run \in RecognitionRuns, screen \in AppScreens :
       \E ids \in ExtractIdentifiers(JoinLines(screen)) :
         LET r == VariableRecognition(worker[w].final_text, screen, ids, run)
         IN  worker' = [worker EXCEPT
                          ![w].screen = screen,
                          ![w].identifiers = ids,
                          ![w].final_text = r.final_text,
                          ![w].raised = r.raised,
                          ![w].failed = IF r.propagated THEN "recognize" ELSE "none",
                          ![w].pc = IF r.propagated THEN "except" ELSE "inject"]
  /\ UNCHANGED <<app_state, after_queue, outcome, evars, notApp>>

\* self._inject_text(final_text) (line 494; _inject_text re-raises what
\* the clipboard or the key events raise, lines 590-592)
Inject(w) ==
  /\ InApp
  /\ worker[w].pc = "inject"
  /\ \E ok \in BOOLEAN :
       worker' = [worker EXCEPT
                    ![w].injected = Some(worker[w].final_text),
                    ![w].failed = IF ok THEN "none" ELSE "inject",
                    ![w].pc = IF ok THEN "success" ELSE "except"]
  /\ UNCHANGED <<app_state, after_queue, outcome, evars, notApp>>

\* self._root.after(0, self._on_success) (line 497), the last statement
ScheduleSuccess(w) ==
  /\ InApp
  /\ worker[w].pc = "success"
  /\ after_queue' = Append(after_queue, Callback("on_success", w))
  /\ worker' = [worker EXCEPT ![w].pc = "done"]
  /\ UNCHANGED <<app_state, outcome, evars, notApp>>

\* the except clause of lines 499-501: e is bound and the lambda scheduled;
\* the other locals are not read again
ScheduleError(w) ==
  /\ InApp
  /\ worker[w].pc = "except"
  /\ after_queue' = Append(after_queue, Callback("on_error_lambda", w))
  /\ worker' = [worker EXCEPT ![w] =
                  [NoWorker EXCEPT !.pc = "leave_except", !.e_bound = TRUE]]
  /\ UNCHANGED <<app_state, outcome, evars, notApp>>

\* the end of the except clause: Python unbinds e, and the thread ends
LeaveExcept(w) ==
  /\ InApp
  /\ worker[w].pc = "leave_except"
  /\ worker' = [worker EXCEPT ![w].e_bound = FALSE, ![w].pc = "done"]
  /\ UNCHANGED <<app_state, after_queue, outcome, evars, notApp>>

\* a step of a background thread
NextWorker ==
  \E w \in Workers :
    \/ Transcribe(w)
    \/ Cleanup(w)
    \/ Recognize(w)
    \/ Inject(w)
    \/ ScheduleSuccess(w)
    \/ ScheduleError(w)
    \/ LeaveExcept(w)

NextApp ==
  HotkeyPress \/ HotkeyRelease \/ ToggleRecording \/ MainLoop \/ NextWorker

----------------------------------------------------------------------------
(* The event bus as a state machine: subscribe and unsubscribe are called  *)
(* by any thread and by the callbacks that a dispatch is running           *)

InBus == pc \in {"idle", "bus"} /\ pc' = "bus"

\* subscribe(event_type, callback, priority, weak) (lines 116-133), under
\* _sub_lock
Subscribe(et, callback, priority, weak) ==
  /\ InBus
  /\ sub_count < MaxSubscribes
  /\ sub_count' = sub_count + 1
  /\ subscriptions' =
       [subscriptions EXCEPT ![et] =
          SortByPriority(Append(subscriptions[et],
                                Subscription(callback, priority, weak, sub_count + 1)))]
  /\ unsubscribed' = IF dispatch.pc = "loop" /\ dispatch.type = et
                     THEN unsubscribed \ {callback} ELSE unsubscribed
  /\ UNCHANGED <<collected, dispatch, evars, notBus>>

\* unsubscribe(event_type, callback) (lines 173-188), under _sub_lock
Unsubscribe(et, callback) ==
  /\ InBus
  /\ subscriptions' =
       [subscriptions EXCEPT ![et] = WithoutCallback(subscriptions[et], callback)]
  /\ unsubscribed' = IF dispatch.pc = "loop" /\ dispatch.type = et
                     THEN unsubscribed \cup {callback} ELSE unsubscribed
  /\ UNCHANGED <<collected, dispatch, sub_count, evars, notBus>>

\* the object behind a callback is freed: weak references to it are dead
Collect(callback) ==
  /\ InBus
  /\ callback \notin collected
  /\ \E et \in EventTypes : \E i \in 1..Len(subscriptions[et]) :
       subscriptions[et][i].callback = callback /\ subscriptions[et][i].weak
  /\ \A et \in EventTypes : \A i \in 1..Len(subscriptions[et]) :
       subscriptions[et][i].callback = callback => subscriptions[et][i].weak
  /\ collected' = collected \cup {callback}
  /\ UNCHANGED <<subscriptions, dispatch, sub_count, unsubscribed, evars, notBus>>

\* _dispatch(event), lines 217-220: the copy of the list, under _sub_lock
DispatchBegin(et) ==
  /\ InBus
  /\ dispatch.pc = "idle"
  /\ dispatch' = [NoDispatch EXCEPT !.pc = "loop", !.type = et,
                                    !.subscribers = subscriptions[et]]
  /\ unsubscribed' = {}
  /\ UNCHANGED <<subscriptions, collected, sub_count, evars, notBus>>

\* one iteration of the loop of lines 222-235, outside the lock: a dead
\* weak reference is noted, any other callback is called, and what it
\* raises is logged
DispatchInvoke ==
  /\ InBus
  /\ dispatch.pc = "loop"
  /\ dispatch.index <= Len(dispatch.subscribers)
  /\ LET sub == dispatch.subscribers[dispatch.index]
     IN  IF GetCallback(sub, collected) = None
         THEN dispatch' = [dispatch EXCEPT !.index = @ + 1,
                                           !.dead_refs = Append(@, sub)]
         ELSE dispatch' = [dispatch EXCEPT
                             !.index = @ + 1,
                             !.invoked = Append(@,
                                [sub |-> sub,
                                 late |-> sub.callback \in unsubscribed])]
  /\ UNCHANGED <<subscriptions, collected, sub_count, unsubscribed, evars, notBus>>

\* the end of _dispatch, lines 237-243: the dead references leave the list
DispatchEnd ==
  /\ InBus
  /\ dispatch.pc = "loop"
  /\ dispatch.index > Len(dispatch.subscribers)
  /\ subscriptions' =
       [subscriptions EXCEPT ![dispatch.type] = RemoveDead(@, dispatch.dead_refs)]
  /\ dispatch' = NoDispatch
  /\ unsubscribed' = {}
  /\ UNCHANGED <<collected, sub_count, evars, notBus>>

NextBus ==
  \/ \E call \in SubscribeCalls : Subscribe(call[1], call[2], call[3], call[4])
  \/ \E call \in UnsubscribeCalls : Unsubscribe(call[1], call[2])
  \/ \E callback \in Callbacks : Collect(callback)
  \/ \E et \in EventTypes : DispatchBegin(et)
  \/ DispatchInvoke
  \/ DispatchEnd

----------------------------------------------------------------------------
(* The state machine as a state machine: transition runs under an RLock,   *)
(* so the only calls that interleave with it are those of its callbacks    *)

InMachine == pc \in {"idle", "machine"} /\ pc' = "machine"

\* on_exit(state, callback) (lines 249-256)
OnExit(state, body) ==
  /\ InMachine
  /\ sm_stack = << >>
  /\ Len(sm_on_exit[state]) < MaxCallbacks
  /\ sm_on_exit' = [sm_on_exit EXCEPT ![state] = Append(@, body)]
  /\ UNCHANGED <<sm_state, sm_history, sm_on_enter, sm_stack, sm_published,
                 sm_ran, sm_last, evars, notMachine>>

\* on_enter(state, callback) (lines 234-241)
OnEnter(state, body) ==
  /\ InMachine
  /\ sm_stack = << >>
  /\ Len(sm_on_enter[state]) < MaxCallbacks
  /\ sm_on_enter' = [sm_on_enter EXCEPT ![state] = Append(@, body)]
  /\ UNCHANGED <<sm_state, sm_history, sm_on_exit, sm_stack, sm_published,
                 sm_ran, sm_last, evars, notMachine>>

\* the start of transition(trigger) (lines 173-190) on the stack of calls
\* below it: an unknown key returns False, a known one fixes old_state and
\* new_state
EnterTransition(trigger, below) ==
  IF InTransitionMap(sm_state, trigger)
  THEN /\ sm_stack' = Append(below,
            [trigger |-> trigger, old_state |-> sm_state,
             new_state |-> TransitionMap(sm_state, trigger).to_state,
             phase |-> "exit", i |-> 1])
       /\ UNCHANGED sm_last
  ELSE /\ sm_stack' = below
       /\ sm_last' = [state |-> sm_state, trigger |-> trigger, returned |-> FALSE]

\* a caller calls transition(trigger), directly or through a convenience
\* method (lines 276-307)
TransitionCall(trigger) ==
  /\ InMachine
  /\ sm_stack = << >>
  /\ Len(sm_history) < MaxTransitions
  /\ EnterTransition(trigger, << >>)
  /\ UNCHANGED <<sm_state, sm_history, sm_on_exit, sm_on_enter, sm_published,
                 sm_ran, evars, notMachine>>

\* reset() (lines 264-269)
ResetCall ==
  /\ InMachine
  /\ sm_stack = << >>
  /\ Len(sm_history) < MaxTransitions
  /\ IF sm_state # "IDLE"
     THEN EnterTransition("force_reset", << >>)
     ELSE UNCHANGED <<sm_stack, sm_last>>
  /\ UNCHANGED <<sm_state, sm_history, sm_on_exit, sm_on_enter, sm_published,
                 sm_ran, evars, notMachine>>

\* the call of one exit or entry callback (lines 193-197 and 217-221): what
\* it raises is logged; a callback that calls transition enters it on top of
\* the running call, and past the recursion limit that call raises
RunCallback ==
  /\ InMachine
  /\ sm_stack # << >>
  /\ LET top == sm_stack[Len(sm_stack)]
         callbacks == IF top.phase = "exit" THEN sm_on_exit[top.old_state]
                      ELSE sm_on_enter[top.new_state]
         resumed == [sm_stack EXCEPT ![Len(sm_stack)].i = top.i + 1]
     IN  /\ top.i <= Len(callbacks)
         /\ sm_ran' = sm_ran + 1
         /\ IF callbacks[top.i] \in {"noop", "raise"}
               \/ Len(sm_stack) >= MaxDepth
               \/ Len(sm_history) + Len(sm_stack) >= MaxTransitions
            THEN sm_stack' = resumed /\ UNCHANGED sm_last
            ELSE EnterTransition(callbacks[top.i], resumed)
  /\ UNCHANGED <<sm_state, sm_history, sm_on_exit, sm_on_enter, sm_published,
                 evars, notMachine>>

\* lines 206-214: after the exit callbacks the state and the history change
UpdateState ==
  /\ InMachine
  /\ sm_stack # << >>
  /\ LET top == sm_stack[Len(sm_stack)]
     IN  /\ top.phase = "exit"
         /\ top.i > Len(sm_on_exit[top.old_state])
         /\ sm_state' = top.new_state
         /\ sm_history' = AppendHistory(sm_history,
                                        <<top.old_state, top.trigger, top.new_state>>)
         /\ sm_stack' = [sm_stack EXCEPT ![Len(sm_stack)].phase = "enter",
                                         ![Len(sm_stack)].i = 1]
  /\ UNCHANGED <<sm_on_exit, sm_on_enter, sm_published, sm_ran, sm_last,
                 evars, notMachine>>

\* lines 223-232: after the entry callbacks the event is published and the
\* call returns True
PublishAndReturn ==
  /\ InMachine
  /\ sm_stack # << >>
  /\ LET top == sm_stack[Len(sm_stack)]
     IN  /\ top.phase = "enter"
         /\ top.i > Len(sm_on_enter[top.new_state])
         /\ sm_published' = Append(sm_published,
                                   <<top.old_state, top.trigger, top.new_state>>)
         /\ sm_last' = [state |-> top.old_state, trigger |-> top.trigger,
                        returned |-> TRUE]
         /\ sm_stack' = SubSeq(sm_stack, 1, Len(sm_stack) - 1)
  /\ UNCHANGED <<sm_state, sm_history, sm_on_exit, sm_on_enter, sm_ran,
                 evars, notMachine>>

NextMachine ==
  \/ \E call \in RegisterCalls : call[1] = "exit" /\ OnExit(call[2], call[3])
  \/ \E call \in RegisterCalls : call[1] = "enter" /\ OnEnter(call[2], call[3])
  \/ \E trigger \in Triggers : TransitionCall(trigger)
  \/ ResetCall
  \/ RunCallback
  \/ UpdateState
  \/ PublishAndReturn

\* split_identifier_words(identifier), a call without intermediate states
\* (lines 498-543)
SplitWordsCall ==
  /\ pc = "idle"
  /\ \E id \in SplitInputs :
       /\ w_identifier' = id
       /\ w_words' = SplitIdentifierWords(id)
  /\ pc' = "split_done"
  /\ UNCHANGED <<v_word, v_result, evars, avars, bvars, svars>>

\* is_valid_identifier(word), a call without intermediate states
\* (lines 228-259)
ValidIdentifierCall ==
  /\ pc = "idle"
  /\ \E w \in ValidInputs :
       /\ v_word' = w
       /\ v_result' = IsValidIdentifier(w)
  /\ pc' = "valid_done"
  /\ UNCHANGED <<w_identifier, w_words, evars, avars, bvars, svars>>

NextSplit == SplitWordsCall

NextValid == ValidIdentifierCall

NextExtract == ExtractCall

NextNormalize == NormalizeCall

NextForms == SpokenFormsCall

Next ==
  \/ NextFormat \/ NextMatch \/ NextExtract \/ NextNormalize \/ NextForms
  \/ NextThreads
  \/ NextApp
  \/ NextBus
  \/ NextMachine
  \/ NextSplit \/ NextValid

Spec == Init /\ [][Next]_vars

SpecFormat == Init /\ [][NextFormat]_vars

SpecMatch == Init /\ [][NextMatch]_vars

SpecNormalize == Init /\ [][NextNormalize]_vars

SpecExtract == Init /\ [][NextExtract]_vars

SpecForms == Init /\ [][NextForms]_vars

SpecThreads == Init /\ [][NextThreads]_vars

SpecApp == Init /\ [][NextApp]_vars

SpecBus == Init /\ [][NextBus]_vars

SpecMachine == Init /\ [][NextMachine]_vars

SpecSplit == Init /\ [][NextSplit]_vars

SpecValid == Init /\ [][NextValid]_vars

\* the application with its scheduling: a started thread runs to its end, and
\* the Tk main loop runs every callback that root.after scheduled
SpecAppFair ==
  Init /\ [][NextApp]_vars /\ WF_vars(NextWorker) /\ WF_vars(MainLoop)

----------------------------------------------------------------------------
(* Claims about format                                                     *)

\* the occurrences the current format call visits
AllOccurrences == Occurrences(text, SortIdentifiers(identifiers))

\* the occurrence passes the already-formatted check
PassesCheck(occ) == ~IsAlreadyFormatted(text, occ[1], occ[2])

\* the occurrence was accepted for its identifier
Wrapped(occ) == \E k \in 1..Len(replacements) : replacements[k] = occ

\* two half-open intervals share no position
Disjoint(s1, e1, s2, e2) == (s1..(e1 - 1)) \cap (s2..(e2 - 1)) = {}

\* C1: at every point of a format call the accepted spans are pairwise
\* disjoint as half-open intervals [start, end)
C1_NoOverlap ==
  \A i, j \in 1..Len(replacements) :
    i < j => Disjoint(replacements[i][1], replacements[i][2],
                      replacements[j][1], replacements[j][2])

\* a finished call that accepted two spans and turned an occurrence away
\* because it overlapped an accepted one
C1_Witness ==
  /\ pc = "format_done"
  /\ Len(replacements) >= 2
  /\ LET occs == AllOccurrences
     IN  \E i \in 1..Len(occs) :
           /\ PassesCheck(occs[i])
           /\ ~Wrapped(occs[i])
           /\ OverlapsWithReplacements(occs[i][1], occs[i][2], replacements)

\* the strings a single left-to-right pass can build: the spans by start
\* ascending (equal starts in any order), the input slices between them
\* unmodified, each span replaced by the token of its identifier
RECURSIVE LeftToRight(_, _, _, _)
LeftToRight(t, reps, remaining, cursor) ==
  IF remaining = {} THEN {Slice(t, cursor, Len(t))}
  ELSE LET low   == CHOOSE i \in remaining :
                      \A j \in remaining : reps[i][1] <= reps[j][1]
           firsts == {i \in remaining : reps[i][1] = reps[low][1]}
       IN  UNION {
             {Slice(t, cursor, reps[i][1]) \o Token(reps[i][3]) \o rest :
                rest \in LeftToRight(t, reps, remaining \ {i},
                                     IF reps[i][2] > cursor THEN reps[i][2] ELSE cursor)}
             : i \in firsts}

\* C2: the output of format is the left-to-right concatenation of the
\* unmodified input slices between the accepted spans with the token of each
\* span's identifier, as supplied by the caller
C2_ContentPreservation ==
  pc = "format_done" =>
    result \in LeftToRight(text, replacements, 1..Len(replacements), 0)

\* the pairs (oL, oS) of overlapping occurrences that both pass the check,
\* oS of a strictly shorter identifier than oL
CompetingPairs ==
  LET occs == AllOccurrences
      ok   == {occs[i] : i \in {k \in 1..Len(occs) : PassesCheck(occs[k])}}
  IN  {pair \in ok \X ok :
         /\ Len(pair[2][3]) < Len(pair[1][3])
         /\ Overlap(pair[1][1], pair[1][2], pair[2][1], pair[2][2])}

BlockedByLongerOrEqual(occ) ==
  \E k \in 1..Len(replacements) :
    /\ replacements[k] # occ
    /\ Overlap(occ[1], occ[2], replacements[k][1], replacements[k][2])
    /\ Len(replacements[k][3]) >= Len(occ[3])

C4_Idempotent ==
  (pc = "format_done" /\ pass = 2) => result = first_result

QuoteChars == {Backtick, "\"", "'"}

\* C5: every span format accepts has no backtick or quote right before or
\* right after it, and an even number of each of them in text[0:start]
C5_NeverInsideQuotes ==
  \A k \in 1..Len(replacements) :
    LET start == replacements[k][1]
        end   == replacements[k][2]
    IN  /\ start > 0 => text[start] \notin QuoteChars
        /\ end < Len(text) => text[end + 1] \notin QuoteChars
        /\ \A q \in QuoteChars :
             Cardinality({p \in 1..start : text[p] = q}) % 2 = 0

\* a finished call that wrapped a span after a closed pair of quotes and
\* turned away an occurrence next to or inside quotes
C5_Witness ==
  /\ pc = "format_done"
  /\ \E k \in 1..Len(replacements) :
       \E q \in QuoteChars :
         Cardinality({p \in 1..replacements[k][1] : text[p] = q}) >= 2
  /\ LET occs == AllOccurrences
     IN  \E i \in 1..Len(occs) :
           /\ ~PassesCheck(occs[i])
           /\ ~OverlapsWithReplacements(occs[i][1], occs[i][2], replacements)

\* some accepted span other than (start, end) overlaps (start, end)
OverlapsOtherSpan(start, end) ==
  \E k \in 1..Len(replacements) :
    /\ <<replacements[k][1], replacements[k][2]>> # <<start, end>>
    /\ Overlap(start, end, replacements[k][1], replacements[k][2])

\* (start, end) is an accepted span
SpanWrapped(start, end) ==
  \E k \in 1..Len(replacements) :
    <<replacements[k][1], replacements[k][2]>> = <<start, end>>

\* the spoken forms of all listed identifiers
AllForms ==
  UNION {{GenerateSpokenForms(identifiers[i])[f] :
            f \in 1..Len(GenerateSpokenForms(identifiers[i]))}
         : i \in 1..Len(identifiers)}

\* C6 as claimed: every whole-word, case-insensitive occurrence of a spoken
\* form that passes the check and overlaps no accepted span is wrapped
C6_EveryEligibleWrapped ==
  pc = "format_done" =>
    \A form \in AllForms :
      \A p \in 0..Len(text) :
        ( /\ MatchesAt(text, form, p)
          /\ ~IsAlreadyFormatted(text, p, p + Len(form))
          /\ ~OverlapsOtherSpan(p, p + Len(form)) )
        => SpanWrapped(p, p + Len(form))

\* C6: every occurrence found by the left-to-right scan of a spoken form
\* (successive matches of one form do not overlap each other) that passes
\* the check and overlaps no accepted span is wrapped
C6_EveryScannedEligibleWrapped ==
  pc = "format_done" =>
    LET occs == AllOccurrences
    IN  \A i \in 1..Len(occs) :
          (PassesCheck(occs[i]) /\ ~OverlapsOtherSpan(occs[i][1], occs[i][2]))
          => SpanWrapped(occs[i][1], occs[i][2])

\* a finished call that wrapped the same identifier at two places
C6_Witness ==
  /\ pc = "format_done"
  /\ \E i, j \in 1..Len(replacements) :
       /\ replacements[i][3] = replacements[j][3]
       /\ replacements[i][2] <= replacements[j][1]
       /\ replacements[i][1] < replacements[i][2]
       /\ replacements[j][1] < replacements[j][2]

----------------------------------------------------------------------------
(* Claims about empty inputs                                               *)

\* C7: a finished call with an empty input returns the identity or the
\* empty result: format returns text unchanged when text or identifiers is
\* empty, extract of the empty text returns the empty list, match returns
\* none when the phrase or the identifier list is empty, normalize of the
\* empty string returns the empty string
C7_EmptyInputs ==
  /\ (pc = "format_done" /\ (text = << >> \/ identifiers = << >>))
       => (result = text /\ replacements = << >>)
  /\ (pc = "extract_done" /\ e_text = << >>) => e_result = << >>
  /\ (pc = "match_done" /\ (spoken_text = << >> \/ m_identifiers = << >>))
       => m_result = None
  /\ (pc = "normalize_done" /\ n_word = << >>) => n_result = << >>

\* a match call with an empty phrase and a list holding an identifier that
\* normalizes to the empty string, which an exact comparison would return
C7_Witness ==
  /\ pc = "match_done"
  /\ spoken_text = << >>
  /\ \E i \in 1..Len(m_identifiers) : NormalizeIdentifier(m_identifiers[i]) = << >>
  /\ m_result = None

----------------------------------------------------------------------------
(* Claims about match                                                      *)

\* the positions of the identifiers whose normalized form is the normalized
\* phrase
ExactPositions ==
  {i \in 1..Len(m_identifiers) :
     NormalizeIdentifier(m_identifiers[i]) = NormalizeIdentifier(spoken_text)}

\* the least element of a non-empty set of numbers
Least(S) == CHOOSE x \in S : \A y \in S : x <= y

\* C8: for a non-empty phrase, when some identifier normalizes to the
\* normalized phrase, match returns the first such identifier in caller
\* order with confidence 1.0 and type exact, whatever the scores of the
\* identifiers before it, and the loop stops at that identifier
C8_ExactShortCircuit ==
  (pc = "match_done" /\ spoken_text # << >> /\ ExactPositions # {}) =>
    /\ m_result = Some([identifier |-> m_identifiers[Least(ExactPositions)],
                        confidence |-> One, match_type |-> "exact"])
    /\ m_index = Least(ExactPositions)

\* an exact match returned from the second position, after an identifier
\* whose fuzzy score was capped at 1.0
C8_Witness ==
  /\ pc = "match_done"
  /\ m_result # None
  /\ m_result[1].match_type = "exact"
  /\ m_index = 2
  /\ best_match = Some(m_identifiers[1])
  /\ Same(best_score, One)

\* the capped score of each identifier of the list, as the claim states it:
\* similarity ratio plus bonuses, at most 1
Scores == [i \in 1..Len(m_identifiers) |-> FuzzyScore(spoken_text, m_identifiers[i])]

\* the best of the scores sc over the first n positions (0 for n = 0)
RECURSIVE BestScoreOver(_, _)
BestScoreOver(sc, n) ==
  IF n = 0 THEN Zero
  ELSE LET rest == BestScoreOver(sc, n - 1)
       IN  IF Less(rest, sc[n]) THEN sc[n] ELSE rest

\* C9: without an exact match, match returns a result of type fuzzy exactly
\* when the best score over the list is at least the threshold, and none
\* otherwise
C9_ThresholdRule ==
  ( /\ pc = "match_done"
    /\ spoken_text # << >>
    /\ m_identifiers # << >>
    /\ ExactPositions = {} ) =>
    /\ (m_result # None) <=>
         ~Less(BestScoreOver(Scores, Len(m_identifiers)), threshold)
    /\ m_result # None => m_result[1].match_type = "fuzzy"

\* the first of the first n positions whose score is best
FirstBest(sc, n, best) == Least({i \in 1..n : Same(sc[i], best)})

\* C10: at every point of the loop the best candidate is the earliest of
\* the identifiers seen so far with the highest score (none while that
\* score is 0), and a fuzzy result is the earliest identifier of the list
\* with the highest score
C10_EarliestWinsTies ==
  /\ pc = "match_loop" =>
       LET seen == m_index - 1
           sc   == [i \in 1..seen |-> FuzzyScore(spoken_text, m_identifiers[i])]
           best == BestScoreOver(sc, seen)
       IN  IF Less(Zero, best)
           THEN /\ best_match = Some(m_identifiers[FirstBest(sc, seen, best)])
                /\ Same(best_score, best)
           ELSE best_match = None
  /\ (pc = "match_done" /\ m_result # None /\ m_result[1].match_type = "fuzzy") =>
       LET sc   == Scores
           best == BestScoreOver(sc, Len(m_identifiers))
       IN  m_result[1].identifier =
             m_identifiers[FirstBest(sc, Len(m_identifiers), best)]

\* a fuzzy result from a list whose two identifiers differ and tie for the
\* best score, below the cap
C10_Witness ==
  /\ pc = "match_done"
  /\ m_result # None
  /\ m_result[1].match_type = "fuzzy"
  /\ Len(m_identifiers) = 2
  /\ m_identifiers[1] # m_identifiers[2]
  /\ Same(Scores[1], Scores[2])
  /\ Less(<<1, 2>>, Scores[1]) /\ Less(Scores[1], One)
  /\ m_result[1].identifier = m_identifiers[1]

\* C11: the best score is in [0, 1] at every point of a match call, and a
\* returned match has confidence in [0, 1]: at least the threshold when its
\* type is fuzzy, exactly 1 when its type is exact
C11_ConfidenceRange ==
  /\ ~Less(best_score, Zero) /\ ~Less(One, best_score)
  /\ (pc = "match_done" /\ m_result # None) =>
       /\ m_result[1].match_type \in {"exact", "fuzzy"}
       /\ ~Less(m_result[1].confidence, Zero)
       /\ ~Less(One, m_result[1].confidence)
       /\ m_result[1].match_type = "fuzzy" => ~Less(m_result[1].confidence, threshold)
       /\ m_result[1].match_type = "exact" => Same(m_result[1].confidence, One)

\* a fuzzy match returned with confidence 1 for an identifier whose ratio
\* and bonuses add up to more than 1
C11_Witness ==
  /\ pc = "match_done"
  /\ m_result # None
  /\ m_result[1].match_type = "fuzzy"
  /\ Same(m_result[1].confidence, One)
  /\ Less(One, UncappedScore(spoken_text, m_result[1].identifier))

----------------------------------------------------------------------------
(* Claims about normalize                                                  *)

\* C12: normalize is idempotent: normalizing what a normalize call returned
\* returns it unchanged
C12_NormalizeIdempotent ==
  pc = "normalize_done" => NormalizeIdentifier(n_result) = n_result

\* what follows a word character in a sequence of alphanumeric words: the
\* end, the next character of a word, or one separator ('_', '-', '.', '::'
\* or a whitespace character) and a further word
RECURSIVE WordsFollow(_)
WordsFollow(r) ==
  IF r = << >> THEN TRUE
  ELSE IF r[1] \in Alnum THEN WordsFollow(Tail(r))
  ELSE IF r[1] \in {"_", "-", "."} \cup Whitespace
       THEN Len(r) >= 2 /\ r[2] \in Alnum /\ WordsFollow(Tail(Tail(r)))
  ELSE /\ Len(r) >= 3
       /\ r[1] = ":" /\ r[2] = ":" /\ r[3] \in Alnum
       /\ WordsFollow(SubSeq(r, 4, Len(r)))

\* s is a sequence of alphanumeric words with a separator (or nothing)
\* between consecutive words
IsJoinedWords(s) == s = << >> \/ (s[1] \in Alnum /\ WordsFollow(Tail(s)))

IsAlnumChar(c) == c \in Alnum

\* the lowercase concatenation of the words of s
LowerConcat(s) == Lower(SelectSeq(s, IsAlnumChar))

\* C13: for alphanumeric words joined by any of the separators nothing, '_',
\* '-', '.', '::', whitespace, in any casing, normalize returns the lowercase
\* concatenation of the words
C13_SeparatorAndCaseBlind ==
  (pc = "normalize_done" /\ IsJoinedWords(n_word)) => n_result = LowerConcat(n_word)

\* a normalize call on words in mixed case joined by '::' and by other
\* separators
C13_Witness ==
  /\ pc = "normalize_done"
  /\ IsJoinedWords(n_word)
  /\ Contains(n_word, <<":", ":">>)
  /\ \E i \in 1..Len(n_word) : n_word[i] \in {"_", "-", "."} \cup Whitespace
  /\ \E i \in 1..Len(n_word) : n_word[i] \in Uppers
  /\ n_result = LowerConcat(n_word)

----------------------------------------------------------------------------
(* Claims about extract                                                    *)

\* C14: every string extract returns is a single upper-case letter or passes
\* the validity filter (length >= 2, no stopword, at least one letter, not
\* only '_' and '-')
C14_OutputValid ==
  pc = "extract_done" =>
    \A i \in 1..Len(e_result) :
      \/ (Len(e_result[i]) = 1 /\ e_result[i][1] \in Uppers)
      \/ IsValidCandidate(e_result[i])

\* twice the score as the claim states it: length, mixed case, upper case
\* with '_', separators, namespace access, and nothing else
ClaimedScore2(identifier) ==
  (IF Len(identifier) < 20 THEN Len(identifier) ELSE 20)
  + (IF (\E i \in 1..Len(identifier) : identifier[i] \in Uppers)
        /\ (\E i \in 1..Len(identifier) : identifier[i] \in Lowers)
     THEN 10 ELSE 0)
  + (IF IsUpperStr(identifier) /\ Contains(identifier, <<"_">>) THEN 14 ELSE 0)
  + (IF Contains(identifier, <<"_">>) \/ Contains(identifier, <<"-">>) THEN 6 ELSE 0)
  + (IF Contains(identifier, <<".">>) \/ Contains(identifier, <<":", ":">>)
     THEN 16 ELSE 0)

\* C15 as claimed: the list extract returns is in non-increasing order of
\* the score made of the five stated terms only
C15_SortedByClaimedScore ==
  pc = "extract_done" =>
    \A i, j \in 1..Len(e_result) :
      i < j => ClaimedScore2(e_result[i]) >= ClaimedScore2(e_result[j])

\* C15: the list extract returns is in non-increasing order of the score
\* made of the five stated terms plus 2 for an identifier that starts with a
\* camelCase or snake_case match
C15_SortedByScore ==
  pc = "extract_done" =>
    \A i, j \in 1..Len(e_result) :
      i < j => IdentifierScore2(e_result[i]) >= IdentifierScore2(e_result[j])

\* an extract call that ranks an identifier above another one of higher
\* score in the five stated terms
C15_Witness ==
  /\ pc = "extract_done"
  /\ \E i, j \in 1..Len(e_result) :
       /\ i < j
       /\ ClaimedScore2(e_result[i]) < ClaimedScore2(e_result[j])
       /\ IdentifierScore2(e_result[i]) > IdentifierScore2(e_result[j])

\* C16 as claimed: every identifier extract returns is a contiguous
\* substring of the text
C16_LiteralSubstring ==
  pc = "extract_done" =>
    \A i \in 1..Len(e_result) : Contains(e_text, e_result[i])

\* the separators the namespace recognizer accepts: one or two of '.', ':'
NamespaceSeparators ==
  {<<a>> : a \in {".", ":"}} \cup {<<a, b>> : a, b \in {".", ":"}}

\* identifier is namespace '.' member for a namespace access written in the
\* text with any accepted separator
IsRejoinedAccess(t, identifier) ==
  \E k \in 1..Len(identifier) :
    /\ identifier[k] = "."
    /\ \E sep \in NamespaceSeparators :
         Contains(t, SubSeq(identifier, 1, k - 1) \o sep
                       \o SubSeq(identifier, k + 1, Len(identifier)))

\* C16: every identifier extract returns is a contiguous substring of the
\* text, or is namespace '.' member for a namespace access that the text
\* writes with '.', ':' or a pair of them
C16_LiteralOrRejoined ==
  pc = "extract_done" =>
    \A i \in 1..Len(e_result) :
      Contains(e_text, e_result[i]) \/ IsRejoinedAccess(e_text, e_result[i])

\* an extract call on a namespace access written with '::' that returns the
\* access joined by '.', which the text does not contain
C16_Witness ==
  /\ pc = "extract_done"
  /\ Contains(e_text, <<":", ":">>)
  /\ \E i \in 1..Len(e_result) :
       /\ ~Contains(e_text, e_result[i])
       /\ IsRejoinedAccess(e_text, e_result[i])

\* the identifiers the matches of one pattern add
KindSet(kind, t) ==
  UNION {Emitted(kind, t, PatternFindIter(kind, t, 0)[k]) :
           k \in 1..Len(PatternFindIter(kind, t, 0))}

\* C17: the list extract returns holds no string twice, and it holds every
\* string some recognizer added, so strings that differ only in case or
\* separators are separate entries
C17_OutputUnique ==
  pc = "extract_done" =>
    /\ \A i, j \in 1..Len(e_result) : i < j => e_result[i] # e_result[j]
    /\ e_text # << >> =>
         /\ \A kind \in PatternKinds : \A x \in KindSet(kind, e_text) :
              \E i \in 1..Len(e_result) : e_result[i] = x
         /\ Len(e_result) = Cardinality(ExtractedSet(e_text))

\* an extract call on a text where two recognizers add the same string and
\* two returned strings differ in the separator only
C17_Witness ==
  /\ pc = "extract_done"
  /\ \E k1, k2 \in PatternKinds :
       k1 # k2 /\ KindSet(k1, e_text) \cap KindSet(k2, e_text) # {}
  /\ \E i, j \in 1..Len(e_result) :
       /\ i < j
       /\ NormalizeIdentifier(e_result[i]) = NormalizeIdentifier(e_result[j])

----------------------------------------------------------------------------
(* Claims about spoken forms                                               *)

FirstSeen(forms, form) ==
  forms[CHOOSE k \in 1..Len(forms) :
          /\ Lower(forms[k]) = Lower(form)
          /\ \A m \in 1..(k - 1) : Lower(forms[m]) # Lower(form)]

----------------------------------------------------------------------------
(* Claims about the URL and path check of format                           *)

\* text[max(0, start-20) : min(len, end+20)]
Window(start, end) ==
  Slice(text, IF start < ContextWindow THEN 0 ELSE start - ContextWindow,
        IF end + ContextWindow > Len(text) THEN Len(text) ELSE end + ContextWindow)

\* the window holds '://', or two '/', or two backslashes
LooksLikePath(w) ==
  \/ \E i \in 1..(Len(w) - 2) : w[i] = ":" /\ w[i + 1] = "/" /\ w[i + 2] = "/"
  \/ Cardinality({i \in 1..Len(w) : w[i] = "/"}) >= 2
  \/ Cardinality({i \in 1..Len(w) : w[i] = "\\"}) >= 2

\* C19: at every point of a format call no accepted span has a context
\* window that holds '://', two or more '/' or two or more backslashes
C19_NoSpanInPathContext ==
  \A k \in 1..Len(replacements) :
    ~LooksLikePath(Window(replacements[k][1], replacements[k][2]))

\* a finished call that skipped an occurrence for a '://' or a backslash
\* window and wrapped an occurrence of the same identifier further away
C19_Witness ==
  /\ pc = "format_done"
  /\ pass = 1
  /\ replacements # << >>
  /\ \E i \in 1..Len(text) : text[i] \in {":", "\\"}
  /\ LET occs == AllOccurrences
     IN  \E i \in 1..Len(occs) :
           /\ LooksLikePath(Window(occs[i][1], occs[i][2]))
           /\ ~IsAlreadyFormattedNoPath(text, occs[i][1], occs[i][2])
           /\ ~Wrapped(occs[i])

----------------------------------------------------------------------------
(* Claims about concurrent calls                                           *)

\* the values the call returns when it runs alone
SoloResults(call) ==
  CASE call.op = "match" ->
         {MatchIdentifier(call.args[1], call.args[2], call.args[3])}
    [] call.op = "format" -> {FormatWithCodeIdentifiers(call.args[1], call.args[2])}
    [] call.op = "extract" -> ExtractIdentifiers(call.args[1])
    [] call.op = "normalize" -> {NormalizeIdentifier(call.args[1])}

\* C20: whatever the interleaving of the calls of the threads on one
\* instance, the fields of the instance keep the values the constructor gave
\* them, and every finished call has returned what it returns when run alone
C20_ThreadSafe ==
  /\ instance = InstanceFields
  /\ \A th \in Threads :
       t_pc[th] = "done" =>
         /\ Cardinality(SoloResults(t_call[th])) = 1
         /\ t_result[th] \in SoloResults(t_call[th])

\* two calls with loops finished after each ran a step while the other was
\* inside its loop, with locals that differed
C20_Witness ==
  /\ \A th \in Threads : t_pc[th] = "done"
  /\ \E t1, t2 \in Threads :
       /\ t1 # t2
       /\ t_call[t1].op = "match" /\ t_call[t2].op = "format"
       /\ t_local[t1].index > 1
       /\ t_local[t2].replacements # << >>
       /\ t_result[t1] # None

----------------------------------------------------------------------------
(* Claims about the application                                            *)

\* C21: when a call of the variable recognition block of _process_audio
\* (the settings, the window service, the screen capture, extract or
\* format) raises, the exception stays in the block: final_text is still the
\* cleaned text, that text is what _inject_text receives, and the worker
\* goes on to the injection and to scheduling _on_success; it takes the
\* error path only if the injection itself raises.
C21_EngineFailureContained ==
  \A w \in Workers :
    worker[w].raised =>
      /\ worker[w].final_text = worker[w].cleaned
      /\ worker[w].failed \in {"none", "inject"}
      /\ worker[w].pc = "except" => worker[w].failed = "inject"
      /\ worker[w].injected # None => worker[w].injected = Some(worker[w].cleaned)
      /\ worker[w].pc \in {"success", "done"} /\ worker[w].failed = "none"
           => worker[w].injected = Some(worker[w].cleaned)

\* a worker whose recognition block raised, although format would have
\* changed the text, has injected the cleaned text, and _on_success has run
C21_Witness ==
  \E w \in Workers :
    /\ worker[w].raised
    /\ worker[w].pc = "done"
    /\ worker[w].failed = "none"
    /\ worker[w].identifiers # << >>
    /\ FormatWithCodeIdentifiers(worker[w].cleaned, worker[w].identifiers)
         # worker[w].cleaned
    /\ worker[w].injected = Some(worker[w].cleaned)
    /\ outcome = "success"
    /\ app_state = "IDLE"

----------------------------------------------------------------------------
(* Claims about the event bus                                              *)

\* a precedes b in the dispatch order: higher priority first, and of two
\* subscriptions of equal priority the one subscribed first
Precedes(a, b) ==
  a.priority > b.priority \/ (a.priority = b.priority /\ a.n < b.n)

\* the subscriptions of a list are in dispatch order
InDispatchOrder(subs) ==
  \A i, j \in 1..Len(subs) : i < j => Precedes(subs[i], subs[j])

\* C22: after any sequence of subscribe and unsubscribe calls, the list for
\* every event type is in non-increasing order of priority with equal
\* priorities in the order of subscription, and a dispatch invokes its
\* subscribers in that order.
C22_DispatchOrder ==
  /\ \A et \in EventTypes : InDispatchOrder(subscriptions[et])
  /\ InDispatchOrder(dispatch.subscribers)
  /\ InDispatchOrder([i \in 1..Len(dispatch.invoked) |-> dispatch.invoked[i].sub])

\* a dispatch, made after three subscribe calls, has invoked a subscriber of
\* priority 1 that subscribed last and then two of priority 0 in the order
\* in which they subscribed
C22_Witness ==
  /\ dispatch.pc = "loop"
  /\ dispatch.index > Len(dispatch.subscribers)
  /\ Len(dispatch.invoked) = 3
  /\ dispatch.invoked[1].sub.priority = 1
  /\ dispatch.invoked[2].sub.priority = 0
  /\ dispatch.invoked[3].sub.priority = 0
  /\ dispatch.invoked[1].sub.n > dispatch.invoked[3].sub.n
  /\ dispatch.invoked[2].sub.n < dispatch.invoked[3].sub.n
  /\ sub_count = 3
  /\ subscriptions["E2"] = << >>
  /\ collected = {}

\* C29: once unsubscribe(event_type, callback) has returned, no dispatch of
\* that type invokes the callback (until it subscribes again), be the
\* unsubscribe made by a callback of the dispatch or by another thread.
C29_UnsubscribeTakesEffect ==
  \A i \in 1..Len(dispatch.invoked) : ~dispatch.invoked[i].late

\* the workers between the start of _process_audio and its root.after call
ProcessingRuns == {w \in Workers : worker[w].pc \in ProcessingSteps}

\* at most one recording or processing run at a time
C30_OneRunAtATime ==
  /\ Cardinality(ProcessingRuns) <= 1
  /\ ProcessingRuns # {} => app_state = "PROCESSING"

\* a recording starts only from IDLE
C30_RecordingFromIdle ==
  [][app_state # "RECORDING" /\ app_state' = "RECORDING" => app_state = "IDLE"]_vars

\* C30: whenever _state is PROCESSING it is eventually IDLE again, whether
\* the steps of _process_audio succeed or raise; a recording starts only
\* from IDLE, and at most one recording or processing run is in progress.
C30_ReturnsToIdle ==
  /\ (app_state = "PROCESSING") ~> (app_state = "IDLE")
  /\ []C30_OneRunAtATime
  /\ C30_RecordingFromIdle

\* the state the application does not leave: PROCESSING, no worker running,
\* no callback pending, after the lambda of line 501 raised NameError
C30_Stuck ==
  /\ app_state = "PROCESSING"
  /\ outcome = "name_error"
  /\ after_queue = << >>
  /\ \A w \in Workers : worker[w].pc \in {"none", "done"}

----------------------------------------------------------------------------
(* Claims about the state machine                                          *)

\* a call of transition returned False: it was made with a key that is not
\* in the table, and nothing but the record of the call changed
C23_InvalidRejected ==
  [][sm_last' # sm_last /\ ~sm_last'.returned =>
       /\ ~InTransitionMap(sm_last'.state, sm_last'.trigger)
       /\ UNCHANGED <<sm_state, sm_history, sm_published, sm_ran>>]_vars

\* a call of transition returned True: its key is in the table
C23_TrueOnlyForTableKeys ==
  [][sm_last' # sm_last /\ sm_last'.returned =>
       InTransitionMap(sm_last'.state, sm_last'.trigger)]_vars

\* the state changes along an edge of TRANSITIONS
C23_AlongEdges ==
  [][sm_state' # sm_state =>
       \E i \in 1..Len(TRANSITIONS) :
         /\ TRANSITIONS[i].from_state = sm_state
         /\ TRANSITIONS[i].to_state = sm_state']_vars

\* C23: transition(trigger) returns True only for a key (current state,
\* trigger) of the transition table; otherwise it returns False and leaves
\* the state and the history unchanged, runs no callback and publishes no
\* event; hence the state only ever changes along an edge of TRANSITIONS.
C23_RejectsInvalidTriggers ==
  C23_InvalidRejected /\ C23_TrueOnlyForTableKeys /\ C23_AlongEdges

----------------------------------------------------------------------------
(* Claims about split_identifier_words and is_valid_identifier             *)

\* the concatenation of a list of words
RECURSIVE Concat(_)
Concat(words) == IF words = << >> THEN << >> ELSE Head(words) \o Concat(Tail(words))

\* the offsets (from 0) at which the words of a list start in Concat(words)
WordStarts(words) ==
  {Len(Concat(SubSeq(words, 1, k))) : k \in 0..(Len(words) - 1)}

\* the offset at which the run of upper-case letters at the end of s starts
RECURSIVE TrailingUpperStart(_)
TrailingUpperStart(s) ==
  IF s # << >> /\ s[Len(s)] \in Uppers
  THEN TrailingUpperStart(SubSeq(s, 1, Len(s) - 1))
  ELSE Len(s)

\* C24: for an identifier without '_' and '-', split_identifier_words starts
\* a word at every boundary from a lower-case to an upper-case letter, keeps
\* a run of upper-case letters at the end of the identifier in one word, and
\* returns words whose concatenation is the identifier.
C24_SplitAtCaseBoundaries ==
  pc = "split_done"
  /\ CountChar(w_identifier, "_") = 0 /\ CountChar(w_identifier, "-") = 0
  => /\ Concat(w_words) = w_identifier
     /\ \A i \in 1..(Len(w_identifier) - 1) :
          w_identifier[i] \in Lowers /\ w_identifier[i + 1] \in Uppers
            => i \in WordStarts(w_words)
     /\ \A i \in WordStarts(w_words) : i <= TrailingUpperStart(w_identifier)

\* the words of a split are the identifier cut in pieces
C24_ConcatenationOnly ==
  pc = "split_done"
  /\ CountChar(w_identifier, "_") = 0 /\ CountChar(w_identifier, "-") = 0
  => Concat(w_words) = w_identifier

\* the whole of word matches one of the six conventions
WholeWordConforms(word) ==
  \E k \in 1..Len(ValidPatterns) : PatternMatch(ValidPatterns[k], word, 0) = Len(word)

\* word is one upper-case letter
SingleUpperLetter(word) == Len(word) = 1 /\ word[1] \in Uppers

\* C25: is_valid_identifier(word) is True only if the whole word is one
\* upper-case letter, or conforms as a whole to a naming convention and
\* passes the validity filter; it is False for stopwords, for one-character
\* words other than an upper-case letter, and for words of which only a
\* prefix conforms.
C25_WholeWordValid ==
  pc = "valid_done" =>
    /\ v_result =>
         \/ SingleUpperLetter(v_word)
         \/ WholeWordConforms(v_word) /\ IsValidCandidate(v_word)
    /\ Lower(v_word) \in STOPWORDS /\ ~SingleUpperLetter(v_word) => ~v_result
    /\ Len(v_word) = 1 /\ ~SingleUpperLetter(v_word) => ~v_result

----------------------------------------------------------------------------
(* Claims about the determinism of extract                                 *)

\* C26 as claimed: extract is a function of its text: the list a call
\* returns is the only list a call with that text can return, identifiers
\* of equal score included
C26_Deterministic ==
  pc = "extract_done" => ExtractIdentifiers(e_text) = {e_result}

\* C26: the identifiers a call returns and their scores, position by
\* position, are the same for every list a call with that text can return
C26_DeterministicUpToTies ==
  pc = "extract_done" =>
    \A r \in ExtractIdentifiers(e_text) :
      /\ Len(r) = Len(e_result)
      /\ {r[i] : i \in 1..Len(r)} = {e_result[i] : i \in 1..Len(e_result)}
      /\ \A i \in 1..Len(r) :
           IdentifierScore2(r[i]) = IdentifierScore2(e_result[i])

----------------------------------------------------------------------------
(* Claims about exact matches and the threshold                            *)

\* C27 as claimed: when some identifier normalizes to the normalized phrase,
\* match returns an exact result for every threshold, and never a fuzzy one
C27_ExactForEveryPhrase ==
  (pc = "match_done" /\ ExactPositions # {}) =>
    /\ m_result # None
    /\ m_result[1].match_type = "exact"

\* C27: for a non-empty phrase, when some identifier normalizes to the
\* normalized phrase, match returns an exact result of confidence 1.0 for an
\* identifier of that normalized form, whatever the threshold, thresholds
\* above 1.0 included; and with such an identifier in the list no call
\* returns a fuzzy result, the call with the empty phrase returning none
C27_ExactWhateverThreshold ==
  /\ (pc = "match_done" /\ spoken_text # << >> /\ ExactPositions # {}) =>
       /\ m_result # None
       /\ m_result[1].match_type = "exact"
       /\ m_result[1].confidence = One
       /\ NormalizeIdentifier(m_result[1].identifier) = NormalizeIdentifier(spoken_text)
  /\ (pc = "match_done" /\ ExactPositions # {}) =>
       /\ m_result = None \/ m_result[1].match_type # "fuzzy"
       /\ spoken_text = << >> => m_result = None

\* an exact match returned under a threshold above 1.0, after an identifier
\* that was scored as a fuzzy candidate
C27_Witness ==
  /\ pc = "match_done"
  /\ Less(One, threshold)
  /\ m_result # None
  /\ m_result[1].match_type = "exact"
  /\ m_index = 2
  /\ best_match = Some(m_identifiers[1])

----------------------------------------------------------------------------
(* Claims about identifiers of equal length in format                      *)

\* the first position of an identifier in the caller's list
FirstIndex(identifier) ==
  Least({i \in 1..Len(identifiers) : identifiers[i] = identifier})

\* the occurrence overlaps a span accepted for a strictly longer identifier
ClaimedByLonger(occ) ==
  \E k \in 1..Len(replacements) :
    /\ Overlap(occ[1], occ[2], replacements[k][1], replacements[k][2])
    /\ Len(replacements[k][3]) > Len(occ[3])

\* the pairs (oA, oB) of overlapping occurrences that both pass the check,
\* of two identifiers of equal length, oA of the one that comes first in the
\* caller's list, neither overlapping a span of a longer identifier
EqualLengthPairs ==
  LET occs == AllOccurrences
      ok   == {occs[i] : i \in {k \in 1..Len(occs) : PassesCheck(occs[k])}}
  IN  {pair \in ok \X ok :
         /\ Len(pair[1][3]) = Len(pair[2][3])
         /\ pair[1][3] # pair[2][3]
         /\ FirstIndex(pair[1][3]) < FirstIndex(pair[2][3])
         /\ Overlap(pair[1][1], pair[1][2], pair[2][1], pair[2][2])
         /\ ~ClaimedByLonger(pair[1])
         /\ ~ClaimedByLonger(pair[2])}

BlockedByEarlierEqual(occ) ==
  \E k \in 1..Len(replacements) :
    /\ replacements[k] # occ
    /\ Overlap(occ[1], occ[2], replacements[k][1], replacements[k][2])
    /\ Len(replacements[k][3]) = Len(occ[3])
    /\ FirstIndex(replacements[k][3]) <= FirstIndex(occ[3])

C28_BlockedWitness ==
  /\ pc = "format_done"
  /\ \E pair \in EqualLengthPairs :
       Wrapped(pair[2]) /\ BlockedByEarlierEqual(pair[1])

====
